---- MODULE Spec2Model ----
(***************************************************************************)
(* Model of the gemini-tui session controller:                             *)
(*   src/gemini/src/ui/page/main_page.rs   (UI: run loop, key handlers)    *)
(*   src/gemini/src/utils/db_utils.rs      (SQLite persistence)            *)
(*                                                                         *)
(* Conventions                                                             *)
(*   Option<T>   : <<>> is None, <<x>> is Some(x).                         *)
(*   String      : message texts are sequences of one-character strings,   *)
(*                 so that replace()/ends_with() can be computed; titles,  *)
(*                 keys, paths and error messages are TLA+ strings, the    *)
(*                 empty string "" being String::new().                    *)
(*   ids         : generate_unique_id() returns <<n>> for a fresh n; the   *)
(*                 empty id (String::is_empty) is <<>>.                    *)
(*   Local::now(): a logical clock, strictly increasing per call.          *)
(***************************************************************************)
EXTENDS Integers, Sequences, FiniteSets, TLC

VARIABLES
    receiving_message,          \* UI.receiving_message
    response_status,            \* UI.response_status: <<>> None, <<msg>> Failed(msg)
    should_exit,                \* UI.should_exit
    gemini,                     \* UI.gemini: Option<Gemini>
    focus_component,            \* UI.focus_component
    input_field_component,      \* UI.input_field_component (its content)
    image_path,                 \* UI.image_path: Option<String>
    title,                      \* UI.title
    conversation_id,            \* UI.conversation_id
    gen_title_ing,              \* UI.gen_title_ing
    image_url_input_popup,      \* UI.image_url_input_popup is Some
    show,                       \* UI.chat_item_list.show
    popup_delete_confirm_dialog,\* UI.chat_item_list.popup_delete_confirm_dialog
    title_editor_input_field,   \* UI.title_editor_input_field: Option<TextField> (its content)
    current_windows,            \* UI.current_windows: MainWindow or SettingWindow(setting_ui)
    chat_history,               \* UI.chat_show.chat_history
    db,                         \* the SQLite tables behind DB_CONNECTION
    config,                     \* the stored configuration (read_config/save_config)
    local_files,                \* the image files and the image cache directory on disk
    chat_chan,                  \* messages in flight on (chat_tx, chat_rx)
    title_chan,                 \* messages in flight on (title_tx, title_rx)
    summary_threads,            \* spawned summary threads that have not sent yet
    in_flight_request,          \* request the render thread is blocked on
    backend_response,           \* result the backend has produced for it
    pc,                         \* position of the render thread in UI::run
    next_id,                    \* number of ids generate_unique_id has handed out, plus one
    api_gemini,                 \* the gemini-api clients (model/mod.rs, model/blocking.rs) and their caller
    clock                       \* number of Local::now() readings so far

sessionVars == <<receiving_message, response_status, gemini, input_field_component,
                 image_path, title, conversation_id, gen_title_ing, chat_history>>
uiVars      == <<should_exit, focus_component, image_url_input_popup, show,
                 popup_delete_confirm_dialog, title_editor_input_field, current_windows>>
storeVars   == <<db, config, next_id, local_files>>
envVars     == <<chat_chan, title_chan, summary_threads, in_flight_request,
                 backend_response, clock, api_gemini>>
vars        == <<sessionVars, uiVars, storeVars, envVars, pc>>

----------------------------------------------------------------------------
(* Bounds of the model                                                     *)

\* Local::now() is read at most MaxClock times (one per submit, one per Bot turn).
MaxClock == 4

\* save_conversation is called directly at most MaxSaves times.
MaxSaves == 3

\* chat_conversation is called on the gemini-api clients at most MaxCalls times.
MaxCalls == 3

\* a response of the backend has at most MaxResponseLen characters.
MaxResponseLen == 4

(* Input alphabets                                                         *)
InputChars      == {"a"}
InputTexts      == { <<"a">> }
ImagePaths      == {"img"}
ResponseTexts   == { <<"a", "\n", "\n", "b", "\n">> }
SummaryResults  == {"", "Greeting"}
StringErrors    == {"quota exceeded"}
OtherErrors     == {"connection refused"}

\* CurrentWindows::MainWindow / CurrentWindows::SettingWindow(setting_ui)
MainWindow == <<"MainWindow">>
SettingWindow(setting_ui) == <<"SettingWindow", setting_ui>>

None == <<>>
Some(x) == <<x>>
IsSome(o) == o # <<>>
Unwrap(o) == o[1]

\* Result<(String, _)> of send_simple_message / send_image_message:
\*   Ok((response, _)), Err(anyhow!(String)), Err(any other error type)
BackendResults ==
    [kind : {"Ok"}, text : ResponseTexts, msg : {""}]
    \cup [kind : {"ErrString"}, text : {<<>>}, msg : StringErrors]
    \cup [kind : {"ErrOther"}, text : {<<>>}, msg : OtherErrors]

----------------------------------------------------------------------------
(* MainFocusComponent, in declaration order (from_repr / as usize)         *)
MainFocusComponent ==
    <<"InputField", "NewChatButton", "ChatItemList", "SettingButton", "ChatShow">>

FocusRepr(f) == CHOOSE i \in 1..Len(MainFocusComponent) : MainFocusComponent[i] = f

\* variant: with the sidebar visible the advance skips one component
next_component_Skipping(f, shown) ==
    IF shown
    THEN MainFocusComponent[((FocusRepr(f) + 1) % Len(MainFocusComponent)) + 1]
    ELSE IF f = "InputField" THEN "ChatShow" ELSE "InputField"

\* UI::next_component
next_component(f, shown) ==
    IF shown
    THEN MainFocusComponent[(FocusRepr(f) % Len(MainFocusComponent)) + 1]
    ELSE IF f = "InputField" THEN "ChatShow" ELSE "InputField"

\* variant: hiding the sidebar leaves the focus where it is
sidebar_focus_Unchanged(f, shown) == f

\* UI::show_and_hide_sidebar: the focus it leaves
sidebar_focus(f, shown) ==
    IF shown /\ f \in {"ChatItemList", "NewChatButton", "SettingButton"}
    THEN "InputField"
    ELSE f

----------------------------------------------------------------------------
(* Response normalisation (handle_key, lines 495-500)                      *)

\* str::replace("\n\n", "\n"): one left-to-right pass over non-overlapping matches
RECURSIVE ReplaceDoubleNewline(_)
ReplaceDoubleNewline(s) ==
    IF Len(s) < 2 THEN s
    ELSE IF s[1] = "\n" /\ s[2] = "\n"
         THEN <<"\n">> \o ReplaceDoubleNewline(SubSeq(s, 3, Len(s)))
         ELSE <<s[1]>> \o ReplaceDoubleNewline(Tail(s))

NormalizeResponse(response) ==
    LET r == ReplaceDoubleNewline(response)
    IN  IF Len(r) > 0 /\ r[Len(r)] = "\n" THEN SubSeq(r, 1, Len(r) - 1) ELSE r

----------------------------------------------------------------------------
(* Persistence (db_utils.rs)                                               *)

\* the files the program works with besides the database: whether the attached
\* images can be read and encoded, whether the cache directory can be used, and
\* the cache entries (image record id -> encoded image)
LocalFiles(images_readable, cache_available) ==
    [images_readable |-> images_readable, cache_available |-> cache_available,
     image_cache |-> <<>>]

EmptyDb == [gemini_conversation   |-> <<>>,
            gemini_message_record |-> <<>>,
            gemini_image_record   |-> <<>>]

\* generate_unique_id() on a store state st = [db, next_id]
generate_unique_id(st) == <<st.next_id>>

SeqToSet(s) == {s[i] : i \in 1..Len(s)}

RECURSIVE SetMax(_)
SetMax(S) ==
    LET x == CHOOSE y \in S : TRUE
    IN  IF S = {x} THEN x
        ELSE LET m == SetMax(S \ {x}) IN IF x > m THEN x ELSE m

\* variant: the index read is used as it is, without the increment
NextSortIndex_NoIncrement(d, cid) ==
    LET idx == {r.sort_index : r \in {x \in SeqToSet(d.gemini_message_record) :
                                          x.conversation_id = cid}}
    IN  IF idx = {} THEN 0 ELSE SetMax(idx)

\* SELECT MAX(sort_index) ... : one row, NULL when the conversation has no record;
\* Option<i32>::unwrap_or_default() turns NULL into 0; map_or(0, |index| index + 1)
\* adds one to every row that was read.
NextSortIndex(d, cid) ==
    LET idx == {r.sort_index : r \in {x \in SeqToSet(d.gemini_message_record) :
                                          x.conversation_id = cid}}
        read == IF idx = {} THEN 0 ELSE SetMax(idx)
    IN  read + 1

\* get_image_type_and_base64_string(path)
EncodeImage(path) == [image_type |-> "image/png", image_base64 |-> path]

\* save_conversation(conversation_id, conversation_title, message) applied to the
\* store state st = [db, next_id]; returns the store state afterwards.
save_conversation(st, cid, conversation_title, message) ==
    LET d == st.db
        exists == \E i \in 1..Len(d.gemini_conversation) :
                     d.gemini_conversation[i].conversation_id = cid /\ cid # <<>>
        \* INSERT when absent; the UPDATE FROM ... statement of the other branch is
        \* rejected by SQLite and its error is dropped, so the row is left as it is.
        convs == IF ~exists
                 THEN Append(d.gemini_conversation,
                        [conversation_id          |-> cid,
                         conversation_title       |-> conversation_title,
                         conversation_start_time  |-> message.date_time,
                         conversation_modify_time |-> message.date_time])
                 ELSE d.gemini_conversation
        sort_index == NextSortIndex(d, cid)
        record_id == generate_unique_id(st)
        record == [record_id       |-> record_id,
                   conversation_id |-> cid,
                   record_content  |-> message.message,
                   record_time     |-> message.date_time,
                   record_sender   |-> message.sender[1],
                   sort_index      |-> sort_index]
    IN  IF message.sender[1] = "User"
        THEN IF message.sender[2] # ""
             THEN [db |-> [gemini_conversation   |-> convs,
                           gemini_message_record |-> Append(d.gemini_message_record, record),
                           gemini_image_record   |-> Append(d.gemini_image_record,
                               [image_record_id |-> <<st.next_id + 1>>,
                                record_id       |-> record_id,
                                image_path      |-> message.sender[2],
                                image_type      |-> EncodeImage(message.sender[2]).image_type,
                                image_base64    |-> EncodeImage(message.sender[2]).image_base64])],
                   next_id |-> st.next_id + 2]
             ELSE [db |-> [gemini_conversation   |-> convs,
                           gemini_message_record |-> Append(d.gemini_message_record, record),
                           gemini_image_record   |-> d.gemini_image_record],
                   next_id |-> st.next_id + 1]
        ELSE IF message.sender[1] = "Bot"
        THEN [db |-> [gemini_conversation   |-> convs,
                      gemini_message_record |-> Append(d.gemini_message_record, record),
                      gemini_image_record   |-> d.gemini_image_record],
              next_id |-> st.next_id + 1]
        ELSE [db |-> [d EXCEPT !.gemini_conversation = convs], next_id |-> st.next_id]

\* modify_title(conversation_id, title): UPDATE ... SET conversation_title WHERE id
modify_title(d, cid, new_title) ==
    [d EXCEPT !.gemini_conversation =
        [i \in 1..Len(d.gemini_conversation) |->
            IF d.gemini_conversation[i].conversation_id = cid
            THEN [d.gemini_conversation[i] EXCEPT !.conversation_title = new_title]
            ELSE d.gemini_conversation[i]]]

\* delete_one(conversation_id): the batch is PRAGMA; DELETE FROM gemini_conversion ...;
\* PRAGMA.  Every other statement of the file names the table gemini_conversation, so
\* the DELETE names a table that does not exist: execute_batch stops with an error
\* at it and no row is removed.
delete_one(d, cid) == d

\* query_all(): the conversation rows, without records
query_all(d) == d.gemini_conversation

\* ORDER BY sort_index ASC over the records of one conversation
RECURSIVE OrderBySortIndex(_)
OrderBySortIndex(rs) ==
    IF rs = <<>> THEN <<>>
    ELSE LET i == CHOOSE k \in 1..Len(rs) :
                    \A j \in 1..Len(rs) :
                        \/ rs[k].sort_index < rs[j].sort_index
                        \/ (rs[k].sort_index = rs[j].sort_index /\ k <= j)
         IN  <<rs[i]>> \o OrderBySortIndex(SubSeq(rs, 1, i - 1) \o SubSeq(rs, i + 1, Len(rs)))

\* LEFT JOIN gemini_image_record: the image row of a record, if it has one
ImageOf(d, record_id) ==
    LET S == {i \in 1..Len(d.gemini_image_record) :
                 d.gemini_image_record[i].record_id = record_id}
    IN  IF S = {} THEN None ELSE Some(d.gemini_image_record[CHOOSE i \in S : TRUE])

\* The row closure of query_detail_by_id fails on a "User" row whose joined
\* image_path is NULL (row.get(6)? into a String), and `while let Some(Ok(record))`
\* stops reading at the first row that fails.
RowReadable(d, r) == r.record_sender = "User" => IsSome(ImageOf(d, r.record_id))

RECURSIVE ReadableRows(_, _)
ReadableRows(d, rs) ==
    IF rs = <<>> \/ ~RowReadable(d, Head(rs)) THEN <<>>
    ELSE <<Head(rs)>> \o ReadableRows(d, Tail(rs))

\* query_detail_by_id(conversation): the MessageRecords it returns
query_detail_by_id(d, cid) ==
    LET rows == OrderBySortIndex(SelectSeq(d.gemini_message_record,
                                           LAMBDA r : r.conversation_id = cid))
        read == ReadableRows(d, rows)
    IN  [i \in 1..Len(read) |->
            [record_id       |-> read[i].record_id,
             record_content  |-> read[i].record_content,
             record_time     |-> read[i].record_time,
             record_sender   |-> IF read[i].record_sender = "User"
                                 THEN <<"User", Unwrap(ImageOf(d, read[i].record_id)).image_path>>
                                 ELSE IF read[i].record_sender = "Bot" THEN <<"Bot">>
                                 ELSE <<"Split">>,
             sort_index      |-> read[i].sort_index,
             image_record    |-> ImageOf(d, read[i].record_id)]]

----------------------------------------------------------------------------
(* The render thread: UI::run and UI::handle_key                           *)

\* Gemini::rebuild(key, model, contents, options) followed by
\* set_system_instruction(system_instruction)
rebuild(key, model, contents, options, system_instruction) ==
    [key |-> key, model |-> model, contents |-> contents, options |-> options,
     system_instruction |-> system_instruction]

\* init_gemini(key): Gemini::new_default_model(key), default options, the empty
\* system instruction and start_chat(Vec::new())
Gemini(key) == rebuild(key, "default-model", <<>>, "default-options", "")

\* the StoreData that init_gemini saves for the client it built
StoreData(g) ==
    [key |-> g.key, model |-> g.model, options |-> g.options,
     system_instruction |-> g.system_instruction]

\* variant: without a stored config the key passed in is not used
restore_or_new_gemini_IgnoresKey(g, cfg, key) ==
    IF IsSome(cfg)
    THEN [gemini |-> Some(rebuild(Unwrap(cfg).key, Unwrap(cfg).model,
                                  IF IsSome(g) THEN Unwrap(g).contents ELSE <<>>,
                                  Unwrap(cfg).options, Unwrap(cfg).system_instruction)),
          config |-> cfg]
    ELSE [gemini |-> g, config |-> cfg]

\* restore_or_new_gemini(key): the client and the stored config afterwards
restore_or_new_gemini_FreshContents(g, cfg, key) ==
    IF IsSome(cfg)
    THEN [gemini |-> Some(rebuild(Unwrap(cfg).key, Unwrap(cfg).model, <<>>,
                                  Unwrap(cfg).options, Unwrap(cfg).system_instruction)),
          config |-> cfg]
    ELSE IF IsSome(key)
         THEN [gemini |-> Some(Gemini(Unwrap(key))),
               config |-> Some(StoreData(Gemini(Unwrap(key))))]
         ELSE [gemini |-> g, config |-> cfg]

restore_or_new_gemini(g, cfg, key) ==
    IF IsSome(cfg)
    THEN [gemini |-> Some(rebuild(Unwrap(cfg).key, Unwrap(cfg).model,
                                  IF IsSome(g) THEN Unwrap(g).contents ELSE <<>>,
                                  Unwrap(cfg).options, Unwrap(cfg).system_instruction)),
          config |-> cfg]
    ELSE IF IsSome(key)
         THEN [gemini |-> Some(Gemini(Unwrap(key))),
               config |-> Some(StoreData(Gemini(Unwrap(key))))]
         ELSE [gemini |-> g, config |-> cfg]

(***************************************************************************)
(* The gemini-api clients: model/mod.rs (async) and model/blocking.rs      *)
(***************************************************************************)
ClientContents == {"hi", "yo"}

Transport == [kind : {"transport_error"}]

Delivered == [kind : {"response"}, success : BOOLEAN,
              body : {"candidates", "error", "unparsable"}, text : {"ok"}]

Paragraph(role, text) == [role |-> role, parts |-> <<text>>]

NewClient == [contents |-> <<>>, body |-> <<>>, result |-> <<>>, successes |-> 0,
              once_body |-> <<>>, once_result |-> <<>>]

NewClients == [async |-> NewClient, blocking |-> NewClient, calls |-> 0]

Ok(text) == <<"Ok", text>>

Err(cause) == <<"Err", cause>>

\* push of the user paragraph and the request body built from the clone
push_user(g, content) ==
    LET contents == Append(g.contents, Paragraph("user", content))
    IN  [g EXCEPT !.contents = contents, !.body = <<contents>>]

pop(contents) == SubSeq(contents, 1, Len(contents) - 1)

chat_conversation(g, content, response) ==
    LET sent == push_user(g, content)
    IN  IF response.kind = "transport_error"
        THEN [sent EXCEPT !.result = Err("send")]
        ELSE IF response.success
        THEN IF response.body = "candidates"
             THEN [sent EXCEPT !.contents = Append(@, Paragraph("model", response.text)),
                               !.result = Ok(response.text)]
             ELSE [sent EXCEPT !.result = Err("parse")]
        ELSE LET popped == [sent EXCEPT !.contents = pop(@)]
             IN  CASE response.body = "error"      -> [popped EXCEPT !.result = Err("message")]
                   [] response.body = "unparsable" -> [popped EXCEPT !.result = Err("parse")]
                   [] response.body = "candidates" -> [popped EXCEPT !.result = <<"panic">>]

blocking_chat_conversation(g, content, response) ==
    LET sent == push_user(g, content)
    IN  IF response.kind = "transport_error"
        THEN [sent EXCEPT !.result = Err("send")]
        ELSE IF response.body = "candidates"
        THEN [sent EXCEPT !.contents = Append(@, Paragraph("model", response.text)),
                          !.result = Ok(response.text)]
        ELSE [sent EXCEPT !.result = Err("parse")]

\* chat_once: the request holds the one user paragraph, contents is not used
chat_once(g, content, response) ==
    LET sent == [g EXCEPT !.once_body = << <<Paragraph("user", content)>> >>]
    IN  IF response.kind = "transport_error"
        THEN [sent EXCEPT !.once_result = Err("send")]
        ELSE IF response.success
        THEN IF response.body = "candidates"
             THEN [sent EXCEPT !.once_result = Ok(response.text)]
             ELSE [sent EXCEPT !.once_result = Err("parse")]
        ELSE CASE response.body = "error"      -> [sent EXCEPT !.once_result = Err("message")]
               [] response.body = "unparsable" -> [sent EXCEPT !.once_result = Err("parse")]
               [] response.body = "candidates" -> [sent EXCEPT !.once_result = <<"panic">>]

blocking_chat_once(g, content, response) ==
    LET sent == [g EXCEPT !.once_body = << <<Paragraph("user", content)>> >>]
    IN  IF response.kind = "transport_error"
        THEN [sent EXCEPT !.once_result = Err("send")]
        ELSE IF response.body = "candidates"
        THEN [sent EXCEPT !.once_result = Ok(response.text)]
        ELSE [sent EXCEPT !.once_result = Err("parse")]

\* the caller counts the calls that returned Ok
Counted(g) ==
    [g EXCEPT !.successes = @ + (IF g.result[1] = "Ok" THEN 1 ELSE 0)]

ChatConversation(content, response) ==
    /\ api_gemini.calls < MaxCalls
    /\ api_gemini' =
         [async    |-> Counted(chat_conversation(api_gemini.async, content, response)),
          blocking |-> Counted(blocking_chat_conversation(api_gemini.blocking, content, response)),
          calls    |-> api_gemini.calls + 1]
    /\ UNCHANGED <<sessionVars, uiVars, storeVars, chat_chan, title_chan,
                   summary_threads, in_flight_request, backend_response, clock, pc>>

ChatConversationDelivered ==
    \E content \in ClientContents, response \in Delivered :
        ChatConversation(content, response)

ChatConversationTransportError ==
    \E content \in ClientContents, response \in Transport :
        ChatConversation(content, response)

ChatOnce(content, response) ==
    /\ api_gemini' =
         [api_gemini EXCEPT !.async    = chat_once(@, content, response),
                            !.blocking = blocking_chat_once(@, content, response)]
    /\ UNCHANGED <<sessionVars, uiVars, storeVars, chat_chan, title_chan,
                   summary_threads, in_flight_request, backend_response, clock, pc>>

ChatOnceDelivered ==
    \E content \in ClientContents, response \in Delivered :
        ChatOnce(content, response)

ChatOnceTransportError ==
    \E content \in ClientContents, response \in Transport :
        ChatOnce(content, response)

NextClient ==
    \/ ChatConversationDelivered
    \/ ChatConversationTransportError
    \/ ChatOnceDelivered
    \/ ChatOnceTransportError

\* the session a started program has, whatever the store holds
InitSession ==
    /\ receiving_message = FALSE
    /\ response_status = None
    /\ should_exit = FALSE
    /\ config \in {None, Some(StoreData(Gemini(<<"a">>)))}
    /\ gemini = restore_or_new_gemini(None, config, None).gemini
    /\ focus_component = "InputField"
    /\ input_field_component = <<>>
    /\ image_path = None
    /\ title = ""
    /\ conversation_id = <<>>
    /\ gen_title_ing = FALSE
    /\ image_url_input_popup = FALSE
    /\ show = FALSE
    /\ popup_delete_confirm_dialog = None
    /\ title_editor_input_field = None
    /\ current_windows = MainWindow
    /\ chat_history = <<>>
    /\ chat_chan = <<>>
    /\ title_chan = <<>>
    /\ summary_threads = <<>>
    /\ in_flight_request = None
    /\ backend_response = None
    /\ pc = "poll"
    /\ clock = 0
    /\ api_gemini = NewClients

\* the program started for the first time: an empty database, and a cache
\* directory that cannot be used
Init ==
    /\ InitSession
    /\ db = EmptyDb
    /\ next_id = 1
    /\ local_files = LocalFiles(TRUE, FALSE)

\* variant: the key event is read whether or not a message is being received
ReadsKeyEvent_Ungated == pc = "handle" /\ current_windows = MainWindow

\* handle_key reads a key event only when no message is being received
\* (the `if self.receiving_message { ...; return; }` block comes first).
ReadsKeyEvent == pc = "handle" /\ ~receiving_message /\ current_windows = MainWindow

\* handle_key, lines 604-607: with the title editor open the key goes to
\* handle_title_edit_key_event; otherwise it is dispatched on focus_component
FocusDispatch == ReadsKeyEvent /\ title_editor_input_field = None

\* every key handler returns to the head of the loop in UI::run
KeyHandled == pc' = "poll"

\* handle_input_key_event_common: any key but Tab clears the error message
ClearStatus == response_status' = None

\* variant: the rename is issued with the title held before the assignment
TickReceiveTitle_StaleRename ==
    /\ pc = "poll" /\ ~should_exit
    /\ title_chan # <<>>
    /\ gen_title_ing' = FALSE
    /\ title' = Head(title_chan)
    /\ title_chan' = Tail(title_chan)
    /\ db' = modify_title(db, conversation_id, title)
    /\ pc' = "handle"
    /\ UNCHANGED <<receiving_message, response_status, gemini, input_field_component,
                   image_path, conversation_id, chat_history, uiVars, config, next_id, local_files,
                   chat_chan, summary_threads, in_flight_request, backend_response, clock, api_gemini>>

\* UI::run, head of the loop: try_recv on the title channel finds a title
TickReceiveTitle ==
    /\ pc = "poll" /\ ~should_exit
    /\ title_chan # <<>>
    /\ gen_title_ing' = FALSE
    /\ title' = Head(title_chan)
    /\ title_chan' = Tail(title_chan)
    /\ db' = modify_title(db, conversation_id, Head(title_chan))
    /\ pc' = "handle"
    /\ UNCHANGED <<receiving_message, response_status, gemini, input_field_component,
                   image_path, conversation_id, chat_history, uiVars, config, next_id, local_files,
                   chat_chan, summary_threads, in_flight_request, backend_response, clock, api_gemini>>

\* UI::run, head of the loop: try_recv finds the title channel empty
TickNoTitle ==
    /\ pc = "poll" /\ ~should_exit
    /\ title_chan = <<>>
    /\ pc' = "handle"
    /\ UNCHANGED <<sessionVars, uiVars, storeVars, envVars>>

\* UI::run: `while !self.should_exit` ends the loop
ExitLoop ==
    /\ pc = "poll" /\ should_exit
    /\ pc' = "done"
    /\ UNCHANGED <<sessionVars, uiVars, storeVars, envVars>>

----------------------------------------------------------------------------
(* Submit / receive                                                        *)

\* self.image_path.clone().unwrap_or_default()
UnwrapOrDefault(o) == IF IsSome(o) THEN Unwrap(o) ELSE ""

\* submit_message: the ChatMessage pushed and the ChatType sent for a content
SubmittedMessage(content, path, now) ==
    [success |-> TRUE, sender |-> <<"User", path>>, message |-> content, date_time |-> now]

\* variant: the request carries the text only
SubmittedRequest_TextOnly(content, path) ==
    [type |-> "Simple", message |-> content, image_path |-> ""]

SubmittedRequest(content, path) ==
    IF path = ""
    THEN [type |-> "Simple", message |-> content, image_path |-> ""]
    ELSE [type |-> "Image", message |-> content, image_path |-> path]

\* Enter in the input field: submit_message
InputEnter ==
    /\ FocusDispatch /\ KeyHandled
    /\ focus_component = "InputField" /\ ~image_url_input_popup
    /\ input_field_component = <<>> \/ gemini = None \/ clock + 2 <= MaxClock
    /\ ClearStatus
    /\ IF input_field_component = <<>>
       THEN UNCHANGED <<receiving_message, gemini, input_field_component, image_path,
                        chat_history, config, chat_chan, clock>>
       ELSE IF gemini = None
       THEN /\ gemini' = restore_or_new_gemini(gemini, config, Some(input_field_component)).gemini
            /\ config' = restore_or_new_gemini(gemini, config, Some(input_field_component)).config
            /\ input_field_component' = <<>>
            /\ UNCHANGED <<receiving_message, image_path, chat_history, chat_chan, clock>>
       ELSE /\ chat_history' = Append(chat_history,
                    SubmittedMessage(input_field_component, UnwrapOrDefault(image_path), clock + 1))
            /\ clock' = clock + 1
            /\ receiving_message' = TRUE
            /\ chat_chan' = Append(chat_chan,
                    SubmittedRequest(input_field_component, UnwrapOrDefault(image_path)))
            /\ image_path' = IF UnwrapOrDefault(image_path) = "" THEN image_path ELSE None
            /\ input_field_component' = <<>>
            /\ UNCHANGED <<gemini, config>>
    /\ UNCHANGED <<api_gemini, title, conversation_id, gen_title_ing, uiVars, db, next_id, local_files,
                   title_chan, summary_threads, in_flight_request, backend_response>>

\* handle_key with receiving_message set: chat_rx.recv() takes the request and the
\* render thread calls send_simple_message / send_image_message itself.
CallBackend ==
    /\ pc = "handle" /\ receiving_message /\ current_windows = MainWindow
    /\ chat_chan # <<>>
    /\ in_flight_request' = Some(Head(chat_chan))
    /\ chat_chan' = Tail(chat_chan)
    /\ pc' = "backend_call"
    /\ UNCHANGED <<sessionVars, uiVars, storeVars, title_chan, summary_threads,
                   backend_response, clock, api_gemini>>

\* Part::Text / Part::InlineData, Content { parts, role }
TextPart(text) == <<"Text", text>>
InlineDataPart(image) == <<"InlineData", image.image_type, image.image_base64>>
Content(role, parts) == [role |-> role, parts |-> parts]

\* send_simple_message / send_image_message on the client g: the client afterwards.
\* A successful exchange is added to the history, the user content first, and a
\* failed one leaves no trace in it.
send_message(g, request, res) ==
    IF res.kind = "Ok"
    THEN [g EXCEPT !.contents = g.contents \o
            << Content(Some("user"),
                       <<TextPart(request.message)>> \o
                       (IF request.type = "Image"
                        THEN <<InlineDataPart(EncodeImage(request.image_path))>>
                        ELSE <<>>)),
               Content(Some("model"), <<TextPart(res.text)>>) >>]
    ELSE g

\* the backend answers the request the render thread is blocked on
BackendRespond ==
    /\ pc = "backend_call" /\ backend_response = None
    /\ \E res \in BackendResults :
          /\ backend_response' = Some(res)
          /\ gemini' = Some(send_message(Unwrap(gemini), Unwrap(in_flight_request), res))
    /\ UNCHANGED <<receiving_message, response_status, input_field_component, image_path,
                   title, conversation_id, gen_title_ing, chat_history, uiVars, storeVars,
                   chat_chan, title_chan, summary_threads, in_flight_request, clock, api_gemini, pc>>

\* variant: a new id is generated at every successful completion
assign_conversation_id_Always(cid, st) ==
    [conversation_id |-> <<st.next_id>>, next_id |-> st.next_id + 1]

\* variant: no id is ever generated
assign_conversation_id_Never(cid, st) ==
    [conversation_id |-> cid, next_id |-> st.next_id]

\* lines 471-475: "if self.conversation_id.is_empty() { generate_unique_id() }"
assign_conversation_id(cid, st) ==
    IF cid = <<>>
    THEN [conversation_id |-> generate_unique_id(st), next_id |-> st.next_id + 1]
    ELSE [conversation_id |-> cid, next_id |-> st.next_id]

\* variant: the in-flight flag is not consulted
should_summarize_TitleOnly(t, generating) == t = ""

\* line 477: "if self.title.is_empty() && !self.gen_title_ing"
should_summarize(t, generating) == t = "" /\ ~generating

\* the Bot ChatMessage built from a response (lines 495-506)
BotMessage(response, now) ==
    [success |-> TRUE, sender |-> <<"Bot">>, message |-> NormalizeResponse(response),
     date_time |-> now]

\* Ok((response, _)) arm of handle_key
CompleteOk ==
    /\ pc = "backend_call" /\ IsSome(backend_response)
    /\ Unwrap(backend_response).kind = "Ok"
    /\ LET response == Unwrap(backend_response).text
           a   == assign_conversation_id(conversation_id, [db |-> db, next_id |-> next_id])
           cid == a.conversation_id
           spawn == should_summarize(title, gen_title_ing)
           user_message == chat_history[Len(chat_history)]
           st1 == save_conversation([db |-> db, next_id |-> a.next_id], cid, title, user_message)
           bot_message == BotMessage(response, clock + 1)
           st2 == save_conversation(st1, cid, title, bot_message)
       IN  /\ conversation_id' = cid
           /\ gen_title_ing' = (gen_title_ing \/ spawn)
           /\ summary_threads' = IF spawn
                                 THEN Append(summary_threads,
                                        [key |-> Unwrap(gemini).key, message |-> response])
                                 ELSE summary_threads
           /\ chat_history' = Append(chat_history, bot_message)
           /\ db' = st2.db
           /\ next_id' = st2.next_id
    /\ clock' = clock + 1
    /\ receiving_message' = FALSE
    /\ in_flight_request' = None
    /\ backend_response' = None
    /\ pc' = "poll"
    /\ UNCHANGED <<api_gemini, response_status, gemini, input_field_component, image_path, title,
                   uiVars, config, local_files, chat_chan, title_chan>>

\* variant: the message of every error is shown
FailedStatus_AnyMessage(res) == res.msg

\* lines 517-521: e.downcast_ref::<String>() or "Unknown Error"
FailedStatus(res) == IF res.kind = "ErrString" THEN res.msg ELSE "Unknown Error"

\* variant: the Err arm saves the failed turn as the Ok arm saves the sent one
CompleteErr_Persisting ==
    /\ pc = "backend_call" /\ IsSome(backend_response)
    /\ Unwrap(backend_response).kind # "Ok"
    /\ response_status' = Some("Unknown Error")
    /\ chat_history' = [chat_history EXCEPT ![Len(chat_history)].success = FALSE]
    /\ LET st == save_conversation([db |-> db, next_id |-> next_id], conversation_id, title,
                                   chat_history[Len(chat_history)])
       IN  db' = st.db /\ next_id' = st.next_id
    /\ receiving_message' = FALSE
    /\ in_flight_request' = None
    /\ backend_response' = None
    /\ pc' = "poll"
    /\ UNCHANGED <<gemini, input_field_component, image_path, title, conversation_id,
                   gen_title_ing, uiVars, config, local_files, chat_chan, title_chan,
                   summary_threads, clock, api_gemini>>

\* variant: the Err arm pushes the popped turn back as it was sent
CompleteErr_TurnUnmarked ==
    /\ pc = "backend_call" /\ IsSome(backend_response)
    /\ Unwrap(backend_response).kind # "Ok"
    /\ response_status' = Some(FailedStatus(Unwrap(backend_response)))
    /\ chat_history' = chat_history
    /\ receiving_message' = FALSE
    /\ in_flight_request' = None
    /\ backend_response' = None
    /\ pc' = "poll"
    /\ UNCHANGED <<gemini, input_field_component, image_path, title, conversation_id,
                   gen_title_ing, uiVars, storeVars, chat_chan, title_chan,
                   summary_threads, clock, api_gemini>>

\* Err(e) arm of handle_key
CompleteErr ==
    /\ pc = "backend_call" /\ IsSome(backend_response)
    /\ Unwrap(backend_response).kind # "Ok"
    /\ response_status' = Some(FailedStatus(Unwrap(backend_response)))
    /\ chat_history' = [chat_history EXCEPT ![Len(chat_history)].success = FALSE]
    /\ receiving_message' = FALSE
    /\ in_flight_request' = None
    /\ backend_response' = None
    /\ pc' = "poll"
    /\ UNCHANGED <<gemini, input_field_component, image_path, title, conversation_id,
                   gen_title_ing, uiVars, storeVars, chat_chan, title_chan,
                   summary_threads, clock, api_gemini>>

\* the spawned thread: summary_by_gemini returns the summary, or "" when the
\* request fails, and the thread sends it on title_tx
SummaryThreadFinish ==
    /\ \E i \in 1..Len(summary_threads) :
          summary_threads' = SubSeq(summary_threads, 1, i - 1)
                             \o SubSeq(summary_threads, i + 1, Len(summary_threads))
    /\ \E s \in SummaryResults : title_chan' = Append(title_chan, s)
    /\ UNCHANGED <<sessionVars, uiVars, storeVars, chat_chan, in_flight_request,
                   backend_response, clock, api_gemini, pc>>

----------------------------------------------------------------------------
(* Key handlers                                                            *)

\* Char(x) in the input field: enter_char
InputChar ==
    /\ FocusDispatch /\ KeyHandled
    /\ focus_component = "InputField" /\ ~image_url_input_popup
    /\ ClearStatus
    /\ \E x \in InputChars :
          /\ Append(input_field_component, x) \in InputTexts
          /\ input_field_component' = Append(input_field_component, x)
    /\ UNCHANGED <<receiving_message, gemini, image_path, title, conversation_id,
                   gen_title_ing, chat_history, uiVars, storeVars, envVars>>

\* Backspace in the input field: delete_pre_char
InputBackspace ==
    /\ FocusDispatch /\ KeyHandled
    /\ focus_component = "InputField" /\ ~image_url_input_popup
    /\ ClearStatus
    /\ input_field_component' =
          SubSeq(input_field_component, 1, Len(input_field_component) - 1)
    /\ UNCHANGED <<receiving_message, gemini, image_path, title, conversation_id,
                   gen_title_ing, chat_history, uiVars, storeVars, envVars>>

\* F4 / Ctrl-i in the input field: show_image_input
InputF4 ==
    /\ FocusDispatch /\ KeyHandled
    /\ focus_component = "InputField" /\ ~image_url_input_popup
    /\ ClearStatus
    /\ image_url_input_popup' = TRUE
    /\ UNCHANGED <<current_windows, receiving_message, gemini, input_field_component, image_path, title,
                   conversation_id, gen_title_ing, chat_history, should_exit,
                   focus_component, show, title_editor_input_field, popup_delete_confirm_dialog, storeVars, envVars>>

\* the path-entry popup has the key: Save(res), Cancel or Nothing
PopupKey ==
    /\ FocusDispatch /\ KeyHandled
    /\ focus_component = "InputField" /\ image_url_input_popup
    /\ \/ /\ image_url_input_popup' = FALSE
          /\ \E res \in ImagePaths : image_path' = Some(res)
       \/ /\ image_url_input_popup' = FALSE
          /\ UNCHANGED image_path
       \/ UNCHANGED <<image_url_input_popup, image_path>>
    /\ UNCHANGED <<current_windows, receiving_message, response_status, gemini, input_field_component, title,
                   conversation_id, gen_title_ing, chat_history, should_exit,
                   focus_component, show, title_editor_input_field, popup_delete_confirm_dialog, storeVars, envVars>>

\* the focus handler that gets the key takes it (no path-entry popup in front)
FocusHandlerHasKey ==
    FocusDispatch /\ ~(focus_component = "InputField" /\ image_url_input_popup)

\* variant: only the input field handles Esc
KeyEsc_InputFieldOnly ==
    /\ FocusHandlerHasKey /\ KeyHandled
    /\ focus_component = "InputField"
    /\ should_exit' = TRUE
    /\ ClearStatus
    /\ UNCHANGED <<current_windows, receiving_message, gemini, input_field_component, image_path, title,
                   conversation_id, gen_title_ing, chat_history, focus_component,
                   image_url_input_popup, show, title_editor_input_field, popup_delete_confirm_dialog,
                   storeVars, envVars>>

\* Esc under any focus target
KeyEsc ==
    /\ FocusHandlerHasKey /\ KeyHandled
    /\ should_exit' = TRUE
    /\ IF focus_component = "InputField" THEN ClearStatus ELSE UNCHANGED response_status
    /\ UNCHANGED <<current_windows, receiving_message, gemini, input_field_component, image_path, title,
                   conversation_id, gen_title_ing, chat_history, focus_component,
                   image_url_input_popup, show, title_editor_input_field, popup_delete_confirm_dialog,
                   storeVars, envVars>>

\* Tab: next_component, or next_button of an open delete dialog in the list
KeyTab ==
    /\ FocusHandlerHasKey /\ KeyHandled
    /\ IF focus_component = "ChatItemList" /\ IsSome(popup_delete_confirm_dialog)
       THEN /\ popup_delete_confirm_dialog' = Some(~Unwrap(popup_delete_confirm_dialog))
            /\ UNCHANGED focus_component
       ELSE /\ focus_component' = next_component(focus_component, show)
            /\ UNCHANGED popup_delete_confirm_dialog
    /\ UNCHANGED <<current_windows, sessionVars, should_exit, image_url_input_popup, show, title_editor_input_field, storeVars, envVars>>

\* F3 / Ctrl-s: show_and_hide_sidebar
KeyF3 ==
    /\ FocusHandlerHasKey /\ KeyHandled
    /\ focus_component' = sidebar_focus(focus_component, show)
    /\ show' = ~show
    /\ IF focus_component = "InputField" THEN ClearStatus ELSE UNCHANGED response_status
    /\ UNCHANGED <<current_windows, receiving_message, gemini, input_field_component, image_path, title,
                   conversation_id, gen_title_ing, chat_history, should_exit,
                   image_url_input_popup, popup_delete_confirm_dialog,
                   title_editor_input_field, storeVars, envVars>>

\* a key the focused handler maps to nothing visible here (cursor and scroll
\* keys, list Up/Down, `_ => {}`); in the input field it still clears the error
OtherKey ==
    /\ FocusHandlerHasKey /\ KeyHandled
    /\ IF focus_component = "InputField" THEN ClearStatus ELSE UNCHANGED response_status
    /\ UNCHANGED <<receiving_message, gemini, input_field_component, image_path, title,
                   conversation_id, gen_title_ing, chat_history, uiVars, storeVars, envVars>>

\* event::read() returns something that is not a key press
IgnoredEvent ==
    /\ ReadsKeyEvent /\ KeyHandled
    /\ UNCHANGED <<sessionVars, uiVars, storeVars, envVars>>

\* variant: the reset leaves the focus on the transcript view
new_conversation_FocusChatShow ==
    /\ receiving_message' = FALSE
    /\ response_status' = None
    /\ gemini' = IF IsSome(gemini)
                 THEN Some(rebuild(Unwrap(gemini).key, Unwrap(gemini).model, <<>>,
                                   Unwrap(gemini).options, Unwrap(gemini).system_instruction))
                 ELSE gemini
    /\ focus_component' = "ChatShow"
    /\ input_field_component' = <<>>
    /\ image_path' = None
    /\ title' = ""
    /\ conversation_id' = <<>>
    /\ chat_history' = <<>>

\* variant: the reset keeps the client as it is, history included
new_conversation_KeepsHistory ==
    /\ receiving_message' = FALSE
    /\ response_status' = None
    /\ gemini' = gemini
    /\ focus_component' = "InputField"
    /\ input_field_component' = <<>>
    /\ image_path' = None
    /\ title' = ""
    /\ conversation_id' = <<>>
    /\ chat_history' = <<>>

\* UI::new_conversation
new_conversation ==
    /\ receiving_message' = FALSE
    /\ response_status' = None
    /\ gemini' = IF IsSome(gemini)
                 THEN Some(rebuild(Unwrap(gemini).key, Unwrap(gemini).model, <<>>,
                                   Unwrap(gemini).options, Unwrap(gemini).system_instruction))
                 ELSE gemini
    /\ focus_component' = "InputField"
    /\ input_field_component' = <<>>
    /\ image_path' = None
    /\ title' = ""
    /\ conversation_id' = <<>>
    /\ chat_history' = <<>>

\* Enter on the new-chat button
NewChatEnter ==
    /\ FocusDispatch /\ KeyHandled
    /\ focus_component = "NewChatButton"
    /\ new_conversation
    /\ UNCHANGED <<current_windows, gen_title_ing, should_exit, image_url_input_popup, show, title_editor_input_field,
                   popup_delete_confirm_dialog, storeVars, envVars>>

\* Delete in the conversation list: the confirmation dialog opens
ChatListDelete ==
    /\ FocusDispatch /\ KeyHandled
    /\ focus_component = "ChatItemList"
    /\ popup_delete_confirm_dialog' = Some(FALSE)
    /\ UNCHANGED <<current_windows, sessionVars, should_exit, focus_component, image_url_input_popup, show, title_editor_input_field,
                   storeVars, envVars>>

\* chat_item_list.delete_item(): the ids it can return, the id of the selected
\* item, which is any item of the list (an accepted confirmation over an empty
\* list selects no item, and that key is not among the inputs)
DeletableIds(d) ==
    {query_all(d)[i].conversation_id : i \in 1..Len(query_all(d))}

\* variant: every accepted deletion is taken for the active conversation's
deletes_active_Always(deleted_id, cid) == TRUE

\* line 766: "if deleted_id == self.conversation_id"
deletes_active(deleted_id, cid) == deleted_id = cid

\* Enter in the conversation list with the dialog open: popup.press()
ChatListEnterPopup ==
    /\ FocusDispatch /\ KeyHandled
    /\ focus_component = "ChatItemList"
    /\ IsSome(popup_delete_confirm_dialog)
    /\ popup_delete_confirm_dialog' = None
    /\ IF Unwrap(popup_delete_confirm_dialog)
       THEN \E deleted_id \in DeletableIds(db) :
               /\ db' = delete_one(db, deleted_id)
               /\ IF deletes_active(deleted_id, conversation_id)
                  THEN new_conversation
                  ELSE UNCHANGED <<receiving_message, response_status, gemini,
                                   focus_component, input_field_component, image_path,
                                   title, conversation_id, chat_history>>
       ELSE UNCHANGED <<receiving_message, response_status, gemini, focus_component,
                        input_field_component, image_path, title, conversation_id,
                        chat_history, db>>
    /\ UNCHANGED <<current_windows, gen_title_ing, should_exit, image_url_input_popup, show, title_editor_input_field, config,
                   next_id, local_files, envVars>>

\* read_image_cache(image_record_id) is Ok
CacheHit(files, image_record_id) ==
    files.cache_available /\ image_record_id \in DOMAIN files.image_cache

\* cache_image(image_path, image_record_id): the files afterwards; without a
\* usable cache directory it returns Err, which read_image_data drops
cache_image(files, image, image_record_id) ==
    IF files.cache_available
    THEN [files EXCEPT !.image_cache =
            [k \in DOMAIN files.image_cache \cup {image_record_id} |->
                IF k = image_record_id THEN image ELSE files.image_cache[k]]]
    ELSE files

\* variant: a cache miss is re-encoded without refreshing the cache
read_image_data_NoCacheWrite(files, image_record) ==
    IF CacheHit(files, image_record.image_record_id)
    THEN [parts |-> <<InlineDataPart(files.image_cache[image_record.image_record_id])>>,
          files |-> files]
    ELSE IF files.images_readable
    THEN [parts |-> <<InlineDataPart(EncodeImage(image_record.image_path))>>, files |-> files]
    ELSE [parts |-> <<>>, files |-> files]

\* read_image_data(image_record_id, image_path, parts): the parts it pushes and the
\* files afterwards; get_image_type_and_base64_string is Ok for a readable image
read_image_data(files, image_record) ==
    IF CacheHit(files, image_record.image_record_id)
    THEN [parts |-> <<InlineDataPart(files.image_cache[image_record.image_record_id])>>,
          files |-> files]
    ELSE IF files.images_readable
    THEN [parts |-> <<InlineDataPart(EncodeImage(image_record.image_path))>>,
          files |-> cache_image(files, EncodeImage(image_record.image_path),
                                image_record.image_record_id)]
    ELSE [parts |-> <<>>, files |-> files]

\* the role a stored sender maps to (lines 782-786)
LoadedRole(record) ==
    IF record.record_sender[1] = "User" THEN Some("user")
    ELSE IF record.record_sender[1] = "Bot" THEN Some("model")
    ELSE None

\* the closure of lines 780-796 run over the records in order: the contents it
\* collects and the cache it leaves
RECURSIVE LoadedContents(_, _)
LoadedContents(files, records) ==
    IF records = <<>> THEN [contents |-> <<>>, files |-> files]
    ELSE LET record == Head(records)
             image  == IF IsSome(record.image_record)
                       THEN read_image_data(files, Unwrap(record.image_record))
                       ELSE [parts |-> <<>>, files |-> files]
             rest   == LoadedContents(image.files, Tail(records))
         IN  [contents |-> <<Content(LoadedRole(record),
                                     <<TextPart(record.record_content)>> \o image.parts)>>
                           \o rest.contents,
              files |-> rest.files]

\* the ChatMessage a loaded record becomes (lines 805-815)
LoadedMessage(record) ==
    [success |-> TRUE, sender |-> record.record_sender, message |-> record.record_content,
     date_time |-> record.record_time]

\* Enter in the conversation list without dialog: chat_item_list.rebuild() and load
ChatListEnterLoad ==
    /\ FocusDispatch /\ KeyHandled
    /\ focus_component = "ChatItemList"
    /\ popup_delete_confirm_dialog = None
    /\ IF query_all(db) = <<>>
       THEN UNCHANGED <<sessionVars, focus_component, local_files>>
       ELSE \E i \in 1..Len(query_all(db)) :
              LET conversation == query_all(db)[i]
                  conversation_records == query_detail_by_id(db, conversation.conversation_id)
                  loaded == LoadedContents(local_files, conversation_records)
              IN  /\ conversation_id' = conversation.conversation_id
                  /\ title' = conversation.conversation_title
                  /\ gemini' = IF IsSome(gemini)
                               THEN Some(rebuild(Unwrap(gemini).key, Unwrap(gemini).model,
                                                 loaded.contents, Unwrap(gemini).options,
                                                 Unwrap(gemini).system_instruction))
                               ELSE gemini
                  /\ local_files' = loaded.files
                  /\ chat_history' = [k \in 1..Len(conversation_records) |->
                                         LoadedMessage(conversation_records[k])]
                  /\ focus_component' = "ChatShow"
                  /\ input_field_component' = <<>>
                  /\ image_path' = None
                  /\ UNCHANGED <<receiving_message, response_status, gen_title_ing>>
    /\ UNCHANGED <<current_windows, should_exit, image_url_input_popup, show, title_editor_input_field, popup_delete_confirm_dialog,
                   db, config, next_id, envVars>>

----------------------------------------------------------------------------
(* The title editor (make_title_editable, handle_title_edit_key_event,     *)
(* save_title).  A title is an atomic string here, so the TextField holds  *)
(* at most one typed unit: enter_char turns the empty content into         *)
(* "Manual", delete_pre_char empties the content.                          *)

\* TextField::enter_char on the editor content (defined on the empty content)
TitleEnterChar(content) == "Manual"

\* TextField::delete_pre_char on the editor content
TitleDeletePreChar(content) == ""

\* F1 / Ctrl-t in the input field or in the transcript view: make_title_editable
KeyF1 ==
    /\ FocusHandlerHasKey /\ KeyHandled
    /\ focus_component \in {"InputField", "ChatShow"}
    /\ title_editor_input_field' = Some(title)
    /\ IF focus_component = "InputField" THEN ClearStatus ELSE UNCHANGED response_status
    /\ UNCHANGED <<current_windows, receiving_message, gemini, input_field_component, image_path, title,
                   conversation_id, gen_title_ing, chat_history, should_exit,
                   focus_component, image_url_input_popup, show,
                   popup_delete_confirm_dialog, storeVars, envVars>>

\* Char(x) in the title editor
TitleEditChar ==
    /\ ReadsKeyEvent /\ KeyHandled
    /\ IsSome(title_editor_input_field)
    /\ Unwrap(title_editor_input_field) = ""
    /\ title_editor_input_field' = Some(TitleEnterChar(Unwrap(title_editor_input_field)))
    /\ UNCHANGED <<current_windows, sessionVars, should_exit, focus_component, image_url_input_popup, show,
                   popup_delete_confirm_dialog, storeVars, envVars>>

\* Backspace in the title editor
TitleEditBackspace ==
    /\ ReadsKeyEvent /\ KeyHandled
    /\ IsSome(title_editor_input_field)
    /\ title_editor_input_field' = Some(TitleDeletePreChar(Unwrap(title_editor_input_field)))
    /\ UNCHANGED <<current_windows, sessionVars, should_exit, focus_component, image_url_input_popup, show,
                   popup_delete_confirm_dialog, storeVars, envVars>>

\* variant: the edited title is stored but the session keeps its title
save_title_StoreOnly(content, t) == t

\* save_title, line 710: self.title = content
save_title(content, t) == content

\* F1 / Ctrl-t in the title editor: save_title (the rename's error is dropped)
TitleEditSave ==
    /\ ReadsKeyEvent /\ KeyHandled
    /\ IsSome(title_editor_input_field)
    /\ title' = save_title(Unwrap(title_editor_input_field), title)
    /\ db' = IF conversation_id # <<>>
             THEN modify_title(db, conversation_id, Unwrap(title_editor_input_field))
             ELSE db
    /\ title_editor_input_field' = None
    /\ UNCHANGED <<current_windows, receiving_message, response_status, gemini, input_field_component,
                   image_path, conversation_id, gen_title_ing, chat_history, should_exit,
                   focus_component, image_url_input_popup, show,
                   popup_delete_confirm_dialog, config, next_id, local_files, envVars>>

\* Esc in the title editor
TitleEditEsc ==
    /\ ReadsKeyEvent /\ KeyHandled
    /\ IsSome(title_editor_input_field)
    /\ should_exit' = TRUE
    /\ UNCHANGED <<current_windows, sessionVars, focus_component, image_url_input_popup, show,
                   popup_delete_confirm_dialog, title_editor_input_field, storeVars, envVars>>

\* any other key in the title editor (cursor keys, `_ => {}`)
TitleEditOtherKey ==
    /\ ReadsKeyEvent /\ KeyHandled
    /\ IsSome(title_editor_input_field)
    /\ UNCHANGED <<sessionVars, uiVars, storeVars, envVars>>

----------------------------------------------------------------------------
Next ==
    \/ TickReceiveTitle
    \/ TickNoTitle
    \/ ExitLoop
    \/ InputEnter
    \/ CallBackend
    \/ BackendRespond
    \/ CompleteOk
    \/ CompleteErr
    \/ SummaryThreadFinish
    \/ InputChar
    \/ InputBackspace
    \/ InputF4
    \/ PopupKey
    \/ KeyEsc
    \/ KeyTab
    \/ KeyF3
    \/ OtherKey
    \/ IgnoredEvent
    \/ NewChatEnter
    \/ ChatListDelete
    \/ ChatListEnterPopup
    \/ ChatListEnterLoad
    \/ KeyF1
    \/ TitleEditChar
    \/ TitleEditBackspace
    \/ TitleEditSave
    \/ TitleEditEsc
    \/ TitleEditOtherKey

Spec == Init /\ [][Next]_vars

----------------------------------------------------------------------------
(* Failing collaborators: the store and the image codec return errors.     *)

\* save_conversation returning Err: the stores it can leave behind.  Every
\* statement commits on its own, so the statements before the failing one stay:
\* nothing, the conversation row alone, or the row and the message record
\* without its image record.
save_conversation_failed(st, cid, conversation_title, message) ==
    LET ok == save_conversation(st, cid, conversation_title, message)
        row_only == [db |-> [st.db EXCEPT !.gemini_conversation = ok.db.gemini_conversation],
                     next_id |-> st.next_id]
        no_image == [db |-> [ok.db EXCEPT !.gemini_image_record = st.db.gemini_image_record],
                     next_id |-> st.next_id + 1]
    IN  {st, row_only}
        \cup (IF message.sender[1] = "User" /\ message.sender[2] # "" THEN {no_image} ELSE {})

\* variant: a failed save is reported like a failed round trip
store_failure_status_Reported(status) == Some("Unknown Error")

\* lines 489 and 508: "let _ = save_conversation(...)", the error is dropped
store_failure_status(status) == status

\* Ok((response, _)) arm of handle_key when save_conversation fails for the User
\* turn, for the Bot turn, or for both
CompleteOkStoreFails ==
    /\ pc = "backend_call" /\ IsSome(backend_response)
    /\ Unwrap(backend_response).kind = "Ok"
    /\ LET response == Unwrap(backend_response).text
           a   == assign_conversation_id(conversation_id, [db |-> db, next_id |-> next_id])
           cid == a.conversation_id
           spawn == should_summarize(title, gen_title_ing)
           user_message == chat_history[Len(chat_history)]
           st0 == [db |-> db, next_id |-> a.next_id]
           bot_message == BotMessage(response, clock + 1)
       IN  /\ conversation_id' = cid
           /\ gen_title_ing' = (gen_title_ing \/ spawn)
           /\ summary_threads' = IF spawn
                                 THEN Append(summary_threads,
                                        [key |-> Unwrap(gemini).key, message |-> response])
                                 ELSE summary_threads
           /\ chat_history' = Append(chat_history, bot_message)
           /\ \E user_saved \in BOOLEAN, bot_saved \in BOOLEAN :
                 /\ ~(user_saved /\ bot_saved)
                 /\ \E st1 \in (IF user_saved
                                THEN {save_conversation(st0, cid, title, user_message)}
                                ELSE save_conversation_failed(st0, cid, title, user_message)) :
                    \E st2 \in (IF bot_saved
                                THEN {save_conversation(st1, cid, title, bot_message)}
                                ELSE save_conversation_failed(st1, cid, title, bot_message)) :
                        /\ db' = st2.db
                        /\ next_id' = st2.next_id
    /\ response_status' = store_failure_status(response_status)
    /\ clock' = clock + 1
    /\ receiving_message' = FALSE
    /\ in_flight_request' = None
    /\ backend_response' = None
    /\ pc' = "poll"
    /\ UNCHANGED <<api_gemini, gemini, input_field_component, image_path, title,
                   uiVars, config, local_files, chat_chan, title_chan>>

\* Ok((response, _)) arm of handle_key when the image of the User turn cannot
\* be encoded any more: save_conversation has inserted the conversation row and
\* the message record when get_image_type_and_base64_string(..).unwrap()
\* (db_utils.rs line 195) panics on the render thread; the turn popped at line
\* 488 is never pushed back.
CompleteOkImagePanics ==
    /\ pc = "backend_call" /\ IsSome(backend_response)
    /\ Unwrap(backend_response).kind = "Ok"
    /\ chat_history[Len(chat_history)].sender[2] # ""
    /\ LET response == Unwrap(backend_response).text
           a   == assign_conversation_id(conversation_id, [db |-> db, next_id |-> next_id])
           cid == a.conversation_id
           spawn == should_summarize(title, gen_title_ing)
           user_message == chat_history[Len(chat_history)]
           ok == save_conversation([db |-> db, next_id |-> a.next_id], cid, title, user_message)
       IN  /\ conversation_id' = cid
           /\ gen_title_ing' = (gen_title_ing \/ spawn)
           /\ summary_threads' = IF spawn
                                 THEN Append(summary_threads,
                                        [key |-> Unwrap(gemini).key, message |-> response])
                                 ELSE summary_threads
           /\ chat_history' = SubSeq(chat_history, 1, Len(chat_history) - 1)
           /\ db' = [ok.db EXCEPT !.gemini_image_record = db.gemini_image_record]
           /\ next_id' = a.next_id + 1
    /\ pc' = "aborted"
    /\ UNCHANGED <<receiving_message, response_status, gemini, input_field_component,
                   image_path, title, uiVars, config, local_files, chat_chan, title_chan,
                   in_flight_request, backend_response, clock, api_gemini>>

\* UI::run, head of the loop: a title is received and modify_title returns Err;
\* the `?` of line 135 returns the error from run
TickReceiveTitleRenameFails ==
    /\ pc = "poll" /\ ~should_exit
    /\ title_chan # <<>>
    /\ gen_title_ing' = FALSE
    /\ title' = Head(title_chan)
    /\ title_chan' = Tail(title_chan)
    /\ pc' = "done"
    /\ UNCHANGED <<receiving_message, response_status, gemini, input_field_component,
                   image_path, conversation_id, chat_history, uiVars, storeVars,
                   chat_chan, summary_threads, in_flight_request, backend_response, clock, api_gemini>>

\* The message exchange with failing collaborators: the run loop, the input
\* field with its path-entry popup, the round trip, the summarizer and the exit
\* key, next to the three failures above.
NextFaults ==
    \/ TickReceiveTitle
    \/ TickNoTitle
    \/ ExitLoop
    \/ InputEnter
    \/ CallBackend
    \/ BackendRespond
    \/ CompleteOk
    \/ CompleteErr
    \/ SummaryThreadFinish
    \/ InputChar
    \/ InputF4
    \/ PopupKey
    \/ KeyEsc
    \/ CompleteOkStoreFails
    \/ CompleteOkImagePanics
    \/ TickReceiveTitleRenameFails

SpecFaults == Init /\ [][NextFaults]_vars

----------------------------------------------------------------------------
(* The persistence functions called directly (db_utils.rs): turns are saved *)
(* to the conversation conversation_id, chat_history keeps what was saved,  *)
(* and a stored conversation is read back.                                  *)

\* the rows of one conversation, and the ids that occur in the tables
RecordsOf(d, cid) == SelectSeq(d.gemini_message_record, LAMBDA r : r.conversation_id = cid)
RowsOf(d, cid)    == SelectSeq(d.gemini_conversation, LAMBDA c : c.conversation_id = cid)
StoredIds(d)      == {d.gemini_conversation[i].conversation_id :
                         i \in 1..Len(d.gemini_conversation)}
                     \cup {d.gemini_message_record[i].conversation_id :
                         i \in 1..Len(d.gemini_message_record)}

StoreTitles  == {"first", "second"}
StoreTexts   == { <<"a">>, <<"b">> }
StoreSenders == { <<"User", "">>, <<"User", "img">>, <<"Bot">> }

\* the caller takes a fresh id for the conversation it saves to next
StoreNewConversation ==
    /\ conversation_id = <<>> \/ chat_history # <<>>
    /\ clock < MaxSaves
    /\ conversation_id' = generate_unique_id([db |-> db, next_id |-> next_id])
    /\ next_id' = next_id + 1
    /\ chat_history' = <<>>
    /\ focus_component' = "InputField"
    /\ UNCHANGED <<current_windows, receiving_message, response_status, gemini, input_field_component,
                   image_path, title, gen_title_ing, should_exit, image_url_input_popup,
                   show, popup_delete_confirm_dialog, title_editor_input_field,
                   db, config, local_files, envVars, pc>>

\* save_conversation(conversation_id, conversation_title, message) for any title
\* and any message, at the time of the next clock reading
StoreSave ==
    /\ conversation_id # <<>> /\ focus_component = "InputField"
    /\ clock < MaxSaves
    /\ \E t \in StoreTitles, sender \in StoreSenders, text \in StoreTexts :
          LET message == [success |-> TRUE, sender |-> sender, message |-> text,
                          date_time |-> clock + 1]
              st == save_conversation([db |-> db, next_id |-> next_id],
                                      conversation_id, t, message)
          IN  /\ db' = st.db
              /\ next_id' = st.next_id
              /\ chat_history' = Append(chat_history, message)
    /\ clock' = clock + 1
    /\ UNCHANGED <<api_gemini, receiving_message, response_status, gemini, input_field_component,
                   image_path, title, conversation_id, gen_title_ing, uiVars, config,
                   local_files,
                   chat_chan, title_chan, summary_threads, in_flight_request,
                   backend_response, pc>>

\* the saved conversation is read back and switched to: query_detail_by_id and
\* the mapping of its records to ChatMessages (main_page.rs lines 804-816)
StoreLoad ==
    /\ conversation_id # <<>> /\ focus_component = "InputField"
    /\ chat_history # <<>>
    /\ LET conversation_records == query_detail_by_id(db, conversation_id)
       IN  chat_history' = [k \in 1..Len(conversation_records) |->
                               LoadedMessage(conversation_records[k])]
    /\ focus_component' = "ChatShow"
    /\ UNCHANGED <<current_windows, receiving_message, response_status, gemini, input_field_component,
                   image_path, title, conversation_id, gen_title_ing, should_exit,
                   image_url_input_popup, show, popup_delete_confirm_dialog,
                   title_editor_input_field, storeVars, envVars, pc>>

\* delete_one(conversation_id) for the conversation saved to, which the caller
\* then forgets
StoreDelete ==
    /\ conversation_id # <<>>
    /\ RowsOf(db, conversation_id) # <<>>
    /\ db' = delete_one(db, conversation_id)
    /\ conversation_id' = <<>>
    /\ chat_history' = <<>>
    /\ focus_component' = "InputField"
    /\ UNCHANGED <<current_windows, receiving_message, response_status, gemini, input_field_component,
                   image_path, title, gen_title_ing, should_exit, image_url_input_popup,
                   show, popup_delete_confirm_dialog, title_editor_input_field,
                   config, next_id, local_files, envVars, pc>>

NextStore ==
    \/ StoreNewConversation
    \/ StoreSave
    \/ StoreLoad
    \/ StoreDelete

SpecStore == Init /\ [][NextStore]_vars

----------------------------------------------------------------------------

(* The run loop with the keys that move the focus and open and close the     *)
(* overlays, and no message exchange: the render thread goes round the loop  *)
(* of UI::run, so the loop condition is evaluated again after every key.     *)

NextExit ==
    \/ TickNoTitle
    \/ ExitLoop
    \/ KeyEsc
    \/ KeyTab
    \/ KeyF3
    \/ OtherKey
    \/ InputChar
    \/ InputF4
    \/ PopupKey
    \/ ChatListDelete
    \/ KeyF1
    \/ TitleEditChar
    \/ TitleEditSave
    \/ TitleEditEsc

SpecExit == Init /\ [][NextExit]_vars /\ WF_vars(ExitLoop)

----------------------------------------------------------------------------

(* The program started over the database of earlier runs, with a cache      *)
(* directory that can be used: conversations are loaded and left, and an    *)
(* image file may disappear after it was saved.  No message is exchanged.   *)

\* an earlier run's successful exchange saved as a new conversation, as the Ok
\* arm of handle_key saves it: a fresh id, the User turn, the Bot turn
EarlierConversation(st, path, t) ==
    LET a  == assign_conversation_id(<<>>, st)
        s1 == save_conversation([db |-> st.db, next_id |-> a.next_id], a.conversation_id, "",
                                SubmittedMessage(<<"a">>, path, t))
    IN  save_conversation(s1, a.conversation_id, "", BotMessage(<<"b", "\n">>, t + 1))

\* the stores earlier runs can have left behind
EarlierStores ==
    LET empty == [db |-> EmptyDb, next_id |-> 1]
        image == EarlierConversation(empty, "img", 1)
    IN  { image,
          EarlierConversation(image, "", 3),
          EarlierConversation(image, "img", 3) }

InitSwitch ==
    /\ InitSession
    /\ \E st \in EarlierStores : db = st.db /\ next_id = st.next_id
    /\ local_files = LocalFiles(TRUE, TRUE)

\* an image file that was attached earlier is removed or becomes unreadable
ImageFileLost ==
    /\ local_files.images_readable
    /\ local_files' = [local_files EXCEPT !.images_readable = FALSE]
    /\ UNCHANGED <<sessionVars, uiVars, db, config, next_id, envVars, pc>>

NextSwitch ==
    \/ TickNoTitle
    \/ KeyTab
    \/ KeyF3
    \/ InputChar
    \/ NewChatEnter
    \/ ChatListEnterLoad
    \/ ImageFileLost

SpecSwitch == InitSwitch /\ [][NextSwitch]_vars

-----------------------------------------------------------------------------
(* The round trip with any response text: the normalisation of lines       *)
(* 495-500 applied to every text of letters and newlines                   *)
AnyResponseTexts == UNION {[1..n -> {"a", "\n"}] : n \in 0..MaxResponseLen}

\* the backend answers with some text; only the Ok arm normalises
BackendRespondAnyText ==
    /\ pc = "backend_call" /\ backend_response = None
    /\ \E response \in AnyResponseTexts :
          LET res == [kind |-> "Ok", text |-> response, msg |-> ""]
          IN  /\ backend_response' = Some(res)
              /\ gemini' = Some(send_message(Unwrap(gemini), Unwrap(in_flight_request), res))
    /\ UNCHANGED <<receiving_message, response_status, input_field_component, image_path,
                   title, conversation_id, gen_title_ing, chat_history, uiVars, storeVars,
                   chat_chan, title_chan, summary_threads, in_flight_request, clock, api_gemini, pc>>

NextNormalize ==
    \/ TickNoTitle
    \/ InputChar
    \/ InputEnter
    \/ CallBackend
    \/ BackendRespondAnyText
    \/ CompleteOk

SpecNormalize == Init /\ [][NextNormalize]_vars

-----------------------------------------------------------------------------
(* One conversation and its title: the round trip, the summarizer and the  *)
(* title editor, without switching to another conversation                 *)
NextTitle ==
    \/ TickReceiveTitle
    \/ TickNoTitle
    \/ InputChar
    \/ InputEnter
    \/ CallBackend
    \/ BackendRespond
    \/ CompleteOk
    \/ CompleteErr
    \/ SummaryThreadFinish
    \/ KeyF1
    \/ TitleEditChar
    \/ TitleEditBackspace
    \/ TitleEditSave

SpecTitle == Init /\ [][NextTitle]_vars

-----------------------------------------------------------------------------
(* The settings window: UI::run dispatches on current_windows              *)

\* SettingUI::new()
NewSettingUI == [should_exit |-> FALSE, update |-> FALSE]

\* configurations the settings window can store
SettingConfigs ==
    { StoreData(rebuild(<<"a">>, "default-model", <<>>, "default-options", "")),
      StoreData(rebuild(<<"b">>, "other-model", <<>>, "other-options", "brief")) }

InSettingWindow == pc = "handle" /\ current_windows[1] = "SettingWindow"

\* Enter on the setting button: open_setting_menu
SettingButtonEnter ==
    /\ FocusHandlerHasKey /\ KeyHandled
    /\ focus_component = "SettingButton"
    /\ current_windows' = SettingWindow(NewSettingUI)
    /\ UNCHANGED <<sessionVars, should_exit, focus_component, image_url_input_popup, show,
                   popup_delete_confirm_dialog, title_editor_input_field, storeVars, envVars>>

\* setting_ui.handle_key(): the user saves a configuration
SettingSave ==
    /\ InSettingWindow /\ ~current_windows[2].should_exit
    /\ \E cfg \in SettingConfigs : config' = Some(cfg)
    /\ current_windows' = SettingWindow([current_windows[2] EXCEPT !.update = TRUE])
    /\ pc' = "poll"
    /\ UNCHANGED <<sessionVars, should_exit, focus_component, image_url_input_popup, show,
                   popup_delete_confirm_dialog, title_editor_input_field, db, next_id,
                   local_files, envVars>>

\* setting_ui.handle_key(): the user leaves the settings window
SettingExit ==
    /\ InSettingWindow /\ ~current_windows[2].should_exit
    /\ current_windows' = SettingWindow([current_windows[2] EXCEPT !.should_exit = TRUE])
    /\ pc' = "poll"
    /\ UNCHANGED <<sessionVars, should_exit, focus_component, image_url_input_popup, show,
                   popup_delete_confirm_dialog, title_editor_input_field, storeVars, envVars>>

\* UI::run, lines 143-149: the settings window has been left
SettingClose ==
    /\ InSettingWindow /\ current_windows[2].should_exit
    /\ IF current_windows[2].update
       THEN LET r == restore_or_new_gemini(gemini, config, None)
            IN  gemini' = r.gemini /\ config' = r.config
       ELSE UNCHANGED <<gemini, config>>
    /\ current_windows' = MainWindow
    /\ pc' = "poll"
    /\ UNCHANGED <<receiving_message, response_status, input_field_component, image_path,
                   title, conversation_id, gen_title_ing, chat_history, should_exit,
                   focus_component, image_url_input_popup, show, popup_delete_confirm_dialog,
                   title_editor_input_field, db, next_id, local_files, envVars>>

NextSettings ==
    \/ TickReceiveTitle
    \/ TickNoTitle
    \/ InputChar
    \/ InputEnter
    \/ CallBackend
    \/ BackendRespond
    \/ CompleteOk
    \/ CompleteErr
    \/ SummaryThreadFinish
    \/ KeyF3
    \/ KeyTab
    \/ SettingButtonEnter
    \/ SettingSave
    \/ SettingExit
    \/ SettingClose

SpecSettings == Init /\ [][NextSettings]_vars

-----------------------------------------------------------------------------
(* The message round trip under fair scheduling: the render loop keeps     *)
(* iterating, the blocking recv() and the backend call return.             *)
NextTurn ==
    \/ TickReceiveTitle
    \/ TickNoTitle
    \/ ExitLoop
    \/ InputEnter
    \/ CallBackend
    \/ BackendRespond
    \/ CompleteOk
    \/ CompleteErr
    \/ SummaryThreadFinish
    \/ InputChar
    \/ InputF4
    \/ PopupKey
    \/ KeyEsc

SpecTurn ==
    /\ Init /\ [][NextTurn]_vars
    /\ WF_vars(TickReceiveTitle \/ TickNoTitle)
    /\ WF_vars(CallBackend)
    /\ WF_vars(BackendRespond)
    /\ WF_vars(CompleteOk \/ CompleteErr)

\* the two gemini-api clients driven with the same calls and outcomes
SpecClient == Init /\ [][NextClient]_vars

----------------------------------------------------------------------------

(* Vocabulary of the properties                                            *)

\* requests handed to the backend path whose result has not been processed
OutstandingRequests == Len(chat_chan) + (IF IsSome(in_flight_request) THEN 1 ELSE 0)

\* the request a turn was submitted with is still outstanding
TurnPending(i) ==
    /\ chat_history[i].sender[1] = "User"
    /\ \/ \E k \in 1..Len(chat_chan) : chat_chan[k].message = chat_history[i].message
                                         /\ i = Len(chat_history)
       \/ IsSome(in_flight_request) /\ i = Len(chat_history)

PendingTurns == {i \in 1..Len(chat_history) : TurnPending(i)}
BotTurns     == {i \in 1..Len(chat_history) : chat_history[i].sender = <<"Bot">>}
FailedTurns  == {i \in 1..Len(chat_history) : ~chat_history[i].success}

\* a step in which handle_key processes the result of a backend call
CompletionStep == pc = "backend_call" /\ pc' = "poll" /\ IsSome(backend_response)
OkStep  == CompletionStep /\ Unwrap(backend_response).kind = "Ok"
ErrStep == CompletionStep /\ Unwrap(backend_response).kind # "Ok"

\* a step in which the loop head takes a title from the title channel
TitleReceiptStep == pc = "poll" /\ pc' = "handle" /\ title_chan # <<>>

----------------------------------------------------------------------------
\* C1: while a round trip is outstanding no further submit is accepted: in every
\* reachable state at most one request is outstanding and at most one turn of
\* the transcript is awaiting its result, and a request is outstanding exactly
\* while receiving_message is set.
C1_SingleOutstandingRequest ==
    /\ OutstandingRequests <= 1
    /\ Cardinality(PendingTurns) <= 1
    /\ receiving_message <=> OutstandingRequests = 1
    /\ receiving_message => PendingTurns = {Len(chat_history)}

C1_Witness ==
    /\ receiving_message
    /\ IsSome(in_flight_request)
    /\ Len(chat_history) >= 2
    /\ PendingTurns = {Len(chat_history)}

\* C2: the backend round trip runs off the render loop: the render thread is
\* never inside the backend call, and whenever receiving_message is set and the
\* loop reaches handle_key it can still process the exit key.
C2_RoundTripOffRenderLoop ==
    /\ pc # "backend_call"
    /\ (receiving_message /\ pc = "handle") => ENABLED KeyEsc

\* C3: conversation_id is generated only by a successful completion that finds
\* it empty; a failed completion never changes it, and a successful completion
\* that finds it set leaves it unchanged.
GeneratedIds == {<<n>> : n \in 1..(next_id - 1)}

C3_IdGeneratedOnceOnSuccess ==
    [][ /\ (conversation_id' \notin (GeneratedIds \cup {<<>>}))
            => (OkStep /\ conversation_id = <<>>)
        /\ (OkStep /\ conversation_id = <<>>)
            => (conversation_id' # <<>> /\ conversation_id' \notin GeneratedIds)
        /\ ErrStep => conversation_id' = conversation_id
        /\ (OkStep /\ conversation_id # <<>>) => conversation_id' = conversation_id
      ]_vars

C3_Witness ==
    /\ conversation_id # <<>>
    /\ Cardinality(BotTurns) = 2
    /\ ~receiving_message

\* C4: conversation_id is non-empty only if a round trip has succeeded for that
\* conversation (the store holds a Bot record under it), and it is empty only if
\* no round trip has succeeded in the session (the transcript holds nothing but
\* failed or pending User turns).
C4_IdIffRoundTripSucceeded ==
    /\ conversation_id # <<>> =>
          \E i \in 1..Len(db.gemini_message_record) :
              /\ db.gemini_message_record[i].conversation_id = conversation_id
              /\ db.gemini_message_record[i].record_sender = "Bot"
    /\ conversation_id = <<>> =>
          \A i \in 1..Len(chat_history) :
              /\ chat_history[i].sender[1] = "User"
              /\ ~chat_history[i].success \/ i \in PendingTurns

C4_Witness ==
    /\ conversation_id = <<>>
    /\ Len(chat_history) = 2
    /\ FailedTurns = {1, 2}

\* C5: no turn whose round trip failed has a record in the store (no record
\* carries a failed turn's timestamp, and every stored User record is followed
\* by the Bot record of the same successful round), and a failed completion
\* leaves the store unchanged.
NoFailedTurnStored ==
    /\ \A i \in FailedTurns :
          \A k \in 1..Len(db.gemini_message_record) :
              db.gemini_message_record[k].record_time # chat_history[i].date_time
    /\ \A k \in 1..Len(db.gemini_message_record) :
          db.gemini_message_record[k].record_sender = "User" =>
              /\ k < Len(db.gemini_message_record)
              /\ db.gemini_message_record[k + 1].record_sender = "Bot"
              /\ db.gemini_message_record[k + 1].conversation_id
                    = db.gemini_message_record[k].conversation_id

C5_FailedTurnNeverPersisted ==
    /\ []NoFailedTurnStored
    /\ [][ErrStep => db' = db]_vars

C5_Witness ==
    /\ FailedTurns # {}
    /\ BotTurns # {}
    /\ Len(db.gemini_message_record) = 2
    /\ ~receiving_message

\* C6: for every conversation the sort_index values of its records, in
\* insertion order, are 0, 1, 2, ...
C6_SortIndexFromZero ==
    \A cid \in StoredIds(db) :
        \A k \in 1..Len(RecordsOf(db, cid)) : RecordsOf(db, cid)[k].sort_index = k - 1

\* C7: a successful completion keeps the pending User turn as a Success turn and
\* persists it first, appends a Success Bot turn with the normalized response and
\* persists it under the same conversation id with the next sort_index, and
\* clears receiving_message; from an empty session the transcript becomes
\* [User, Bot] and the store holds exactly one conversation row and two message
\* rows for the conversation.
C7_SuccessfulCompletion ==
    [][ OkStep =>
        LET n    == Len(chat_history)
            m    == Len(db.gemini_message_record)
            recs == db'.gemini_message_record
        IN  /\ Len(chat_history') = n + 1
            /\ SubSeq(chat_history', 1, n) = chat_history
            /\ chat_history'[n].success /\ chat_history'[n].sender[1] = "User"
            /\ chat_history'[n + 1].success /\ chat_history'[n + 1].sender = <<"Bot">>
            /\ chat_history'[n + 1].message
                  = NormalizeResponse(Unwrap(backend_response).text)
            /\ conversation_id' # <<>>
            /\ Len(recs) = m + 2
            /\ SubSeq(recs, 1, m) = db.gemini_message_record
            /\ recs[m + 1].record_sender = "User"
            /\ recs[m + 1].record_content = chat_history[n].message
            /\ recs[m + 1].conversation_id = conversation_id'
            /\ recs[m + 2].record_sender = "Bot"
            /\ recs[m + 2].record_content = chat_history'[n + 1].message
            /\ recs[m + 2].conversation_id = conversation_id'
            /\ recs[m + 2].sort_index = recs[m + 1].sort_index + 1
            /\ Len(RowsOf(db', conversation_id')) = 1
            /\ ~receiving_message'
            /\ (n = 1 /\ conversation_id = <<>>) =>
                  /\ Len(chat_history') = 2
                  /\ Len(RecordsOf(db', conversation_id')) = 2
      ]_vars

C7_Witness ==
    /\ Len(chat_history) = 2
    /\ chat_history[1].success /\ chat_history[1].sender[1] = "User"
    /\ chat_history[2] = [success |-> TRUE, sender |-> <<"Bot">>,
                          message |-> <<"a", "\n", "b">>, date_time |-> 2]
    /\ Len(db.gemini_conversation) = 1
    /\ Len(db.gemini_message_record) = 2
    /\ ~receiving_message

\* C8 (as claimed): a failed completion marks the last User turn Failed, appends
\* no turn, keeps conversation_id, sets the status-error field to the backend
\* error's message and clears receiving_message.
C8_FailedCompletionShowsErrorMessage ==
    [][ ErrStep =>
        /\ chat_history' = [chat_history EXCEPT ![Len(chat_history)].success = FALSE]
        /\ chat_history[Len(chat_history)].sender[1] = "User"
        /\ conversation_id' = conversation_id
        /\ response_status' = Some(Unwrap(backend_response).msg)
        /\ ~receiving_message'
      ]_vars

\* C8 (amended): as above, but the status-error field is the error's message
\* only when the error is a String message; for any other error it is the
\* fixed text "Unknown Error".
C8_FailedCompletion ==
    [][ ErrStep =>
        /\ chat_history' = [chat_history EXCEPT ![Len(chat_history)].success = FALSE]
        /\ chat_history[Len(chat_history)].sender[1] = "User"
        /\ conversation_id' = conversation_id
        /\ response_status' = IF Unwrap(backend_response).kind = "ErrString"
                              THEN Some(Unwrap(backend_response).msg)
                              ELSE Some("Unknown Error")
        /\ ~receiving_message'
      ]_vars

C8_Witness ==
    /\ response_status = Some("Unknown Error")
    /\ Len(chat_history) \in FailedTurns
    /\ ~receiving_message
    /\ pc = "poll"

\* C9: a successful completion dispatches a title summarization exactly when
\* title is empty and gen_title_ing is false, and dispatching sets the flag; at
\* most one summarization is in flight at any time, next to at most one message
\* round trip.
C9_SingleSummarization ==
    /\ [](Len(summary_threads) + Len(title_chan) <= 1 /\ OutstandingRequests <= 1)
    /\ [][ OkStep =>
           /\ (Len(summary_threads') = Len(summary_threads) + 1)
                 <=> (title = "" /\ ~gen_title_ing)
           /\ (Len(summary_threads') # Len(summary_threads) + 1)
                 => summary_threads' = summary_threads
           /\ (Len(summary_threads') = Len(summary_threads) + 1) => gen_title_ing'
         ]_vars

C9_Witness ==
    /\ Len(summary_threads) = 1
    /\ gen_title_ing
    /\ IsSome(in_flight_request)

\* C10: when a summarizer result is received on the title channel, title becomes
\* that result, gen_title_ing is cleared and the stored row of the active
\* conversation_id gets the same title (every other row and record is left
\* alone), so the in-memory and the stored title agree.
C10_TitleReceipt ==
    [][ TitleReceiptStep =>
        /\ title' = Head(title_chan)
        /\ ~gen_title_ing'
        /\ Len(db'.gemini_conversation) = Len(db.gemini_conversation)
        /\ \A i \in 1..Len(db.gemini_conversation) :
              IF db.gemini_conversation[i].conversation_id = conversation_id
              THEN db'.gemini_conversation[i] =
                      [db.gemini_conversation[i] EXCEPT !.conversation_title = title']
              ELSE db'.gemini_conversation[i] = db.gemini_conversation[i]
        /\ db'.gemini_message_record = db.gemini_message_record
        /\ db'.gemini_image_record = db.gemini_image_record
      ]_vars

C10_Witness ==
    /\ title = "Greeting"
    /\ ~gen_title_ing
    /\ conversation_id # <<>>
    /\ \E i \in 1..Len(db.gemini_conversation) :
          /\ db.gemini_conversation[i].conversation_id = conversation_id
          /\ db.gemini_conversation[i].conversation_title = "Greeting"

----------------------------------------------------------------------------
\* a step in which a key press is handled (by a focus handler, an overlay or
\* the title editor)
KeyStep == pc = "handle" /\ ~receiving_message /\ pc' = "poll"

\* C11: a failed summarization (the summarizer delivers the empty string) has
\* no user-visible effect: when its result is received the title and the store
\* stay as they are, and gen_title_ing is cleared.
C11_FailedSummarizationInvisible ==
    [][ (TitleReceiptStep /\ Head(title_chan) = "") =>
        /\ title' = title
        /\ db' = db
        /\ ~gen_title_ing'
      ]_vars

\* C12: the summarizer writes the title at most once per conversation and never
\* over a saved manual edit: a summarizer result is only ever received into an
\* empty title.
C12_TitleWrittenAutomaticallyOnce ==
    [][ TitleReceiptStep => title = "" ]_vars

\* C13: no error terminates the process: the run loop has ended (by return or
\* by panic) only if the exit key has set should_exit.
C13_OnlyExitKeyTerminates ==
    pc \in {"done", "aborted"} => should_exit

\* C14: a successful completion leaves the transcript, conversation_id, title,
\* receiving_message and the status-error field in the state determined by the
\* response alone, whether or not the store writes succeed: the Bot turn is
\* appended, the id is the one held or a fresh one, the title and the
\* status-error field are untouched and receiving_message is cleared.
C14_StoreFailureKeepsSessionState ==
    [][ OkStep =>
        /\ chat_history' = Append(chat_history,
                                  [success |-> TRUE, sender |-> <<"Bot">>,
                                   message |-> NormalizeResponse(Unwrap(backend_response).text),
                                   date_time |-> clock + 1])
        /\ conversation_id' = IF conversation_id = <<>> THEN <<next_id>> ELSE conversation_id
        /\ title' = title
        /\ ~receiving_message'
        /\ response_status' = response_status
      ]_vars

C14_Witness ==
    /\ conversation_id # <<>>
    /\ Cardinality(BotTurns) = 1
    /\ Len(chat_history) = 2
    /\ db.gemini_message_record = <<>>
    /\ ~receiving_message
    /\ response_status = None

\* C15: an image that cannot be encoded is dropped without any error outcome:
\* save_conversation returns normally, so the render thread is never aborted
\* while persisting a turn.
C15_UnencodableImageDropped ==
    pc # "aborted"

\* C16: focus never points to a hidden component: whenever the sidebar is
\* hidden, focus_component is InputField or ChatShow.
C16_FocusVisible ==
    ~show => focus_component \in {"InputField", "ChatShow"}

C16_Witness ==
    /\ ~show
    /\ IsSome(popup_delete_confirm_dialog)
    /\ focus_component = "InputField"

\* C17: Tab (with no overlay holding the key) moves focus, with the sidebar
\* visible, to the next of InputField, NewChatButton, ChatItemList,
\* SettingButton, ChatShow and back to InputField, so that five advances return
\* to the start; with the sidebar hidden it toggles between InputField and
\* ChatShow.
AdvanceOrder(f) ==
    CASE f = "InputField"    -> "NewChatButton"
      [] f = "NewChatButton" -> "ChatItemList"
      [] f = "ChatItemList"  -> "SettingButton"
      [] f = "SettingButton" -> "ChatShow"
      [] f = "ChatShow"      -> "InputField"

C17_AdvanceCycle ==
    [][ (KeyTab /\ ~(focus_component = "ChatItemList"
                     /\ IsSome(popup_delete_confirm_dialog))) =>
        /\ show => focus_component' = AdvanceOrder(focus_component)
        /\ (~show /\ focus_component = "InputField") => focus_component' = "ChatShow"
        /\ (~show /\ focus_component = "ChatShow") => focus_component' = "InputField"
        /\ show' = show
        /\ \A f \in SeqToSet(MainFocusComponent) :
              next_component(next_component(next_component(next_component(
                  next_component(f, TRUE), TRUE), TRUE), TRUE), TRUE) = f
      ]_vars

C17_Witness ==
    /\ show
    /\ focus_component = "SettingButton"
    /\ pc = "poll"

\* C18: while an overlay holds the keys (the path-entry popup in the input
\* field, the delete confirmation in the conversation list), a key that does
\* not close the overlay changes neither focus_component, the sidebar
\* visibility, the input buffer nor should_exit.
OverlayHasKey ==
    /\ title_editor_input_field = None
    /\ \/ focus_component = "InputField" /\ image_url_input_popup
       \/ focus_component = "ChatItemList" /\ IsSome(popup_delete_confirm_dialog)

C18_OverlayConsumesKeys ==
    [][ (KeyStep /\ OverlayHasKey
                 /\ image_url_input_popup' = image_url_input_popup
                 /\ (IsSome(popup_delete_confirm_dialog)
                        <=> IsSome(popup_delete_confirm_dialog'))) =>
        /\ focus_component' = focus_component
        /\ show' = show
        /\ input_field_component' = input_field_component
        /\ should_exit' = should_exit
      ]_vars

\* a key press closes an overlay
OverlayCloseStep ==
    /\ KeyStep
    /\ \/ image_url_input_popup /\ ~image_url_input_popup'
       \/ IsSome(popup_delete_confirm_dialog) /\ popup_delete_confirm_dialog' = None

\* C19 (as claimed): closing an overlay, by commit or by cancel, leaves
\* focus_component as it was.
C19_OverlayCloseKeepsFocus ==
    [][ OverlayCloseStep => focus_component' = focus_component ]_vars

\* C19 (amended): closing an overlay leaves focus_component as it was, except
\* when the accepted delete confirmation deletes the active conversation: then
\* the session is reset and focus is InputField.
C19_OverlayCloseFocus ==
    [][ OverlayCloseStep =>
        \/ focus_component' = focus_component
        \/ /\ focus_component = "ChatItemList"
           /\ popup_delete_confirm_dialog = Some(TRUE)
           /\ conversation_id \in DeletableIds(db)
           /\ focus_component' = "InputField"
           /\ conversation_id' = <<>>
           /\ chat_history' = <<>>
           /\ title' = ""
      ]_vars

C19_Witness ==
    /\ image_path = Some("img")
    /\ ~image_url_input_popup
    /\ focus_component = "InputField"
    /\ pc = "poll"

\* C20: Enter on the delete confirmation: when accepted, the session is reset
\* (transcript, conversation_id and title empty, focus InputField) if the
\* deleted id is the active conversation_id, and transcript, conversation_id,
\* title and focus stay as they are if it is another conversation's; when
\* cancelled, nothing is deleted and nothing but the dialog changes.
DeleteConfirmStep ==
    /\ KeyStep /\ title_editor_input_field = None
    /\ focus_component = "ChatItemList"
    /\ IsSome(popup_delete_confirm_dialog) /\ popup_delete_confirm_dialog' = None

C20_DeleteConversation ==
    [][ DeleteConfirmStep =>
        IF Unwrap(popup_delete_confirm_dialog)
        THEN \/ /\ conversation_id \in DeletableIds(db)
                /\ chat_history' = <<>> /\ conversation_id' = <<>> /\ title' = ""
                /\ focus_component' = "InputField"
             \/ /\ DeletableIds(db) \ {conversation_id} # {}
                /\ UNCHANGED <<chat_history, conversation_id, title, focus_component>>
        ELSE UNCHANGED <<sessionVars, should_exit, focus_component, image_url_input_popup,
                         show, title_editor_input_field, storeVars, envVars>>
      ]_vars

C20_Witness ==
    /\ FocusDispatch
    /\ focus_component = "ChatItemList"
    /\ popup_delete_confirm_dialog = Some(TRUE)
    /\ conversation_id # <<>> /\ conversation_id \in DeletableIds(db)
    /\ chat_history # <<>> /\ title # ""
    /\ ENABLED (ChatListEnterPopup /\ conversation_id' = <<>> /\ chat_history' = <<>>
                                   /\ title' = "" /\ focus_component' = "InputField")

----------------------------------------------------------------------------
\* a key press runs new_conversation: Enter on the new-chat button, or the
\* accepted confirmation that deletes the active conversation
NewConversationStep ==
    \/ NewChatEnter
    \/ ChatListEnterPopup /\ conversation_id # <<>> /\ conversation_id' = <<>>

\* C21: new_conversation leaves the session empty whatever it was before:
\* receiving_message false, response_status None, conversation_id, title,
\* chat_history, image_path and the input field empty, focus InputField, and
\* the client, if there is one, with empty contents and the key, model, options
\* and system instruction it had.
C21_NewConversationEmptiesSession ==
    [][ NewConversationStep =>
        /\ ~receiving_message'
        /\ response_status' = None
        /\ conversation_id' = <<>> /\ title' = "" /\ chat_history' = <<>>
        /\ image_path' = None /\ input_field_component' = <<>>
        /\ focus_component' = "InputField"
        /\ IsSome(gemini') = IsSome(gemini)
        /\ IsSome(gemini) =>
              /\ Unwrap(gemini').contents = <<>>
              /\ Unwrap(gemini').key = Unwrap(gemini).key
              /\ Unwrap(gemini').model = Unwrap(gemini).model
              /\ Unwrap(gemini').options = Unwrap(gemini).options
              /\ Unwrap(gemini').system_instruction = Unwrap(gemini).system_instruction
      ]_vars

\* the new-chat button is about to be pressed in a session that has a
\* conversation, a transcript, a client history, a title and typed input
C21_Witness ==
    /\ FocusDispatch /\ focus_component = "NewChatButton"
    /\ IsSome(gemini) /\ Unwrap(gemini).contents # <<>>
    /\ chat_history # <<>> /\ conversation_id # <<>> /\ title # ""
    /\ input_field_component # <<>> /\ IsSome(image_path)
    /\ ENABLED (NewChatEnter /\ chat_history' = <<>>)

----------------------------------------------------------------------------
\* Enter in the conversation list loads a stored conversation
LoadStep == ChatListEnterLoad /\ query_all(db) # <<>>

\* the stored records of a conversation in sort_index order
StoredRecords(d, cid) == OrderBySortIndex(RecordsOf(d, cid))

\* the role the claim maps a stored sender kind to
RoleOfKind(kind) == IF kind = "User" THEN Some("user")
                    ELSE IF kind = "Bot" THEN Some("model") ELSE None

\* C22: loading a stored conversation replaces the transcript by the stored
\* records in sort_index order, every turn successful and with its stored sender;
\* sets conversation_id and title from the selected summary; rebuilds the
\* client's contents with one entry per record in the same order, User as role
\* user and Bot as role model; clears image_path and the input field; and moves
\* the focus to ChatShow.
C22_SwitchToStoredConversation ==
    [][ LoadStep =>
        LET stored == StoredRecords(db, conversation_id')
        IN  /\ \E i \in 1..Len(query_all(db)) :
                  /\ conversation_id' = query_all(db)[i].conversation_id
                  /\ title' = query_all(db)[i].conversation_title
            /\ Len(chat_history') = Len(stored)
            /\ \A k \in 1..Len(stored) :
                  /\ chat_history'[k].success
                  /\ chat_history'[k].sender[1] = stored[k].record_sender
                  /\ chat_history'[k].message = stored[k].record_content
            /\ IsSome(gemini) =>
                  /\ Len(Unwrap(gemini').contents) = Len(stored)
                  /\ \A k \in 1..Len(stored) :
                        /\ Unwrap(gemini').contents[k].role = RoleOfKind(stored[k].record_sender)
                        /\ Unwrap(gemini').contents[k].parts[1] = TextPart(stored[k].record_content)
            /\ image_path' = None /\ input_field_component' = <<>>
            /\ focus_component' = "ChatShow"
      ]_vars

----------------------------------------------------------------------------
\* the (sender, text) pairs of a transcript
SenderTextPairs(history) ==
    [k \in 1..Len(history) |-> <<history[k].sender[1], history[k].message>>]

\* C23: for every sequence of turns saved to a conversation with
\* save_conversation (User turns with and without an image, Bot turns), loading
\* the conversation and switching to it gives a transcript with the same
\* (sender, text) pairs, complete and in the saved order.
C23_SaveLoadRoundTrip ==
    [][ StoreLoad => SenderTextPairs(chat_history') = SenderTextPairs(chat_history) ]_vars

\* C24: saving to a conversation id that is already stored creates no second
\* conversation row: there is exactly one row for the id, its title is the one
\* it had, and its modification time is the time of this call.
C24_UpsertStoredConversation ==
    [][ (StoreSave /\ RowsOf(db, conversation_id) # <<>>) =>
        /\ Len(RowsOf(db', conversation_id)) = 1
        /\ RowsOf(db', conversation_id)[1].conversation_title
              = RowsOf(db, conversation_id)[1].conversation_title
        /\ RowsOf(db', conversation_id)[1].conversation_modify_time = clock'
      ]_vars

----------------------------------------------------------------------------
\* C25: Enter in the input field with a non-empty text and a client (no round
\* trip is outstanding when a key is read) appends exactly one User turn with
\* the text and the attached image path, pending, to the end of chat_history,
\* clears the input field, sets receiving_message and hands exactly one
\* request with that text and image path to the backend path; with an empty
\* text submit_message changes nothing (the key handler that called it has
\* cleared response_status, as for every key but Tab).
C25_Submit ==
    [][ InputEnter =>
        IF input_field_component = <<>>
        THEN UNCHANGED <<receiving_message, gemini, input_field_component, image_path, title,
                         conversation_id, gen_title_ing, chat_history, uiVars, storeVars,
                         envVars>>
        ELSE IsSome(gemini) =>
              /\ Len(chat_history') = Len(chat_history) + 1
              /\ SubSeq(chat_history', 1, Len(chat_history)) = chat_history
              /\ chat_history'[Len(chat_history')].sender
                    = <<"User", UnwrapOrDefault(image_path)>>
              /\ chat_history'[Len(chat_history')].message = input_field_component
              /\ PendingTurns' = {Len(chat_history')}
              /\ input_field_component' = <<>>
              /\ receiving_message'
              /\ OutstandingRequests = 0 /\ OutstandingRequests' = 1
              /\ Len(chat_chan') = 1
              /\ chat_chan'[1].message = input_field_component
              /\ chat_chan'[1].image_path = UnwrapOrDefault(image_path)
      ]_vars

\* a text with an attached image has just been submitted
C25_Witness ==
    /\ pc = "poll" /\ receiving_message
    /\ Len(chat_chan) = 1 /\ chat_chan[1].image_path = "img"
    /\ chat_history # <<>>
    /\ chat_history[Len(chat_history)].sender = <<"User", "img">>
    /\ input_field_component = <<>>

\* C26: without a client, Enter in the input field with a non-empty text builds
\* a client whose key is the text and appends no turn: chat_history is
\* unchanged, receiving_message stays false and no request is handed over.
C26_SubmitWithoutClient ==
    [][ (InputEnter /\ gemini = None /\ input_field_component # <<>>) =>
        /\ IsSome(gemini') /\ Unwrap(gemini').key = input_field_component
        /\ chat_history' = chat_history
        /\ ~receiving_message'
        /\ chat_chan' = chat_chan /\ in_flight_request' = in_flight_request
        /\ OutstandingRequests' = 0
      ]_vars

\* there is no client, a text is typed and Enter is about to build the client
C26_Witness ==
    /\ FocusDispatch /\ focus_component = "InputField" /\ ~image_url_input_popup
    /\ gemini = None /\ input_field_component # <<>>
    /\ ENABLED (InputEnter /\ IsSome(gemini') /\ chat_history' = chat_history)

----------------------------------------------------------------------------
\* the image rows that belong to the message records of a conversation
ImagesOf(d, cid) ==
    SelectSeq(d.gemini_image_record,
              LAMBDA g : \E i \in 1..Len(d.gemini_message_record) :
                            /\ d.gemini_message_record[i].record_id = g.record_id
                            /\ d.gemini_message_record[i].conversation_id = cid)

\* C27: delete_one(id) removes the conversation row of id with all its message
\* records and image records and leaves the rows of every other conversation as
\* they are; afterwards query_all does not list the id.
C27_DeleteRemovesConversation ==
    [][ StoreDelete =>
        /\ RowsOf(db', conversation_id) = <<>>
        /\ RecordsOf(db', conversation_id) = <<>>
        /\ ImagesOf(db, conversation_id) # <<>> =>
              \A k \in 1..Len(ImagesOf(db, conversation_id)) :
                  ImagesOf(db, conversation_id)[k] \notin SeqToSet(db'.gemini_image_record)
        /\ \A other \in StoredIds(db) \ {conversation_id} :
              /\ RowsOf(db', other) = RowsOf(db, other)
              /\ RecordsOf(db', other) = RecordsOf(db, other)
              /\ ImagesOf(db', other) = ImagesOf(db, other)
        /\ \A i \in 1..Len(query_all(db')) :
              query_all(db')[i].conversation_id # conversation_id
      ]_vars

----------------------------------------------------------------------------
\* the path-entry popup is open in front of the input field
PathPopupOpen ==
    title_editor_input_field = None /\ focus_component = "InputField" /\ image_url_input_popup

\* the handler that runs when the key read is Esc
EscPress == TitleEditEsc \/ KeyEsc \/ PopupKey

\* C28 (as claimed): the focus is InputField initially, and under every focus
\* target, whenever a key is read (no round trip is outstanding), the Esc key
\* sets should_exit, after which the run loop ends.
C28_ExitKeyFromEveryFocus ==
    /\ focus_component = "InputField"
    /\ [](ReadsKeyEvent => ENABLED (EscPress /\ should_exit'))
    /\ [][ EscPress => should_exit' ]_vars
    /\ (should_exit ~> pc = "done")

\* C28 (amended): the focus is InputField initially, and under every focus
\* target, whenever a key is read and the path-entry popup is not open, the Esc
\* key sets should_exit, after which the run loop ends.
C28_ExitKey ==
    /\ focus_component = "InputField"
    /\ [](ReadsKeyEvent /\ ~PathPopupOpen => ENABLED (EscPress /\ should_exit'))
    /\ [][ (EscPress /\ ~PathPopupOpen) => should_exit' ]_vars
    /\ (should_exit ~> pc = "done")

\* the loop has ended after Esc in the conversation list with its delete
\* dialog open
C28_Witness ==
    /\ pc = "done" /\ should_exit
    /\ focus_component = "ChatItemList" /\ IsSome(popup_delete_confirm_dialog)

----------------------------------------------------------------------------
\* the image records among the records a load reads
ImageRecordIds(records) ==
    {Unwrap(records[k].image_record).image_record_id :
        k \in {j \in 1..Len(records) : IsSome(records[j].image_record)}}

ClientVariants == {"async", "blocking"}

AlternatingRoles(contents) ==
    \A i \in 1..Len(contents) :
        contents[i].role = (IF i % 2 = 1 THEN "user" ELSE "model")

SuccessfulCallStep(variant) ==
    /\ api_gemini'.calls = api_gemini.calls + 1
    /\ api_gemini'[variant].result # <<>>
    /\ api_gemini'[variant].result[1] = "Ok"

\* the paragraphs a call added behind the ones the client had before
AddedParagraphs(variant) ==
    SubSeq(api_gemini'[variant].contents,
           Len(api_gemini[variant].contents) + 1, Len(api_gemini'[variant].contents))

\* C30: the contents of a conversational client mirror its successful
\* exchanges: a successful chat_conversation call keeps the earlier paragraphs
\* in order and adds exactly the user paragraph and then the model paragraph,
\* its request carries the whole earlier history followed by the user
\* paragraph, and after n successful calls on a fresh client contents has 2n
\* paragraphs whose roles alternate user, model.
C30_ContentsMirrorSuccessfulExchanges ==
    /\ [](\A variant \in ClientVariants :
             (api_gemini[variant].result # <<>> /\ api_gemini[variant].result[1] = "Ok") =>
                /\ Len(api_gemini[variant].contents) = 2 * api_gemini[variant].successes
                /\ AlternatingRoles(api_gemini[variant].contents))
    /\ [][\A variant \in ClientVariants :
             SuccessfulCallStep(variant) =>
                /\ Len(api_gemini'[variant].contents) = Len(api_gemini[variant].contents) + 2
                /\ SubSeq(api_gemini'[variant].contents, 1, Len(api_gemini[variant].contents))
                      = api_gemini[variant].contents
                /\ AddedParagraphs(variant)[1].role = "user"
                /\ AddedParagraphs(variant)[2] =
                      Paragraph("model", api_gemini'[variant].result[2])
                /\ api_gemini'[variant].body =
                      <<api_gemini[variant].contents \o <<AddedParagraphs(variant)[1]>> >>]_vars


FailedCallStep(variant) ==
    /\ api_gemini'.calls = api_gemini.calls + 1
    /\ api_gemini'[variant].result # <<>>
    /\ api_gemini'[variant].result[1] # "Ok"

\* C31: a chat_conversation call that fails, for whatever cause (transport
\* error, non-success status, unparsable response), removes the user
\* paragraph it appended: contents after the failed call equals contents
\* before the call, in the async and in the blocking client.
C31_FailedCallRestoresContents ==
    [][\A variant \in ClientVariants :
          FailedCallStep(variant) =>
             api_gemini'[variant].contents = api_gemini[variant].contents]_vars


BotTexts == {chat_history[i].message : i \in {j \in 1..Len(chat_history) :
                                                    chat_history[j].sender[1] = "Bot"}}

NoDoubledNewline(text) ==
    \A i \in 1..(Len(text) - 1) : ~(text[i] = "\n" /\ text[i + 1] = "\n")

\* C32: response normalization collapses every doubled newline to a single
\* newline and removes one trailing newline: the text of a Bot turn holds no
\* two consecutive newlines, and normalizing it again returns it unchanged.
C32_NormalizedResponse ==
    \A text \in BotTexts :
        /\ NoDoubledNewline(text)
        /\ NormalizeResponse(text) = text


\* the turn the outstanding request was submitted with
SubmittedTurn == chat_history[Len(chat_history)]

\* C33: every accepted submit is eventually completed exactly once: provided
\* the backend call returns, receiving_message eventually becomes false, it is
\* cleared only by the completion of the outstanding request, every completion
\* clears it, and the submitted User turn ends as Success (kept as sent and
\* followed by the Bot turn) or as Failed, never remaining pending.
C33_SubmitCompletedOnce ==
    /\ receiving_message ~> ~receiving_message
    /\ [][(receiving_message /\ ~receiving_message') => CompletionStep]_vars
    /\ [][CompletionStep =>
            /\ receiving_message /\ ~receiving_message'
            /\ PendingTurns = {Len(chat_history)} /\ PendingTurns' = {}
            /\ OutstandingRequests = 1 /\ OutstandingRequests' = 0
            /\ SubmittedTurn.success
            /\ OkStep  => /\ Len(chat_history') = Len(chat_history) + 1
                          /\ chat_history'[Len(chat_history)] = SubmittedTurn
                          /\ chat_history'[Len(chat_history')].sender = <<"Bot">>
            /\ ErrStep => chat_history' =
                            [chat_history EXCEPT ![Len(chat_history)].success = FALSE]]_vars

C33_Witness ==
    /\ ~receiving_message
    /\ FailedTurns # {}
    /\ BotTurns # {}
    /\ PendingTurns = {}


\* a key press other than Tab, under whatever focus target or overlay
NonTabKeyPress ==
    \/ InputEnter \/ InputChar \/ InputBackspace \/ InputF4 \/ PopupKey
    \/ KeyEsc \/ KeyF3 \/ OtherKey
    \/ NewChatEnter \/ ChatListDelete \/ ChatListEnterPopup \/ ChatListEnterLoad
    \/ KeyF1 \/ TitleEditChar \/ TitleEditBackspace \/ TitleEditSave \/ TitleEditEsc

\* C34: response_status is set only by a failed backend round trip; once set
\* it is cleared by the next key press other than Tab, whichever focus target
\* or overlay receives that key, and it is cleared by new_conversation.
C34_StatusSetAndCleared ==
    [][ /\ (response_status' # None /\ response_status' # response_status) => ErrStep
        /\ (NonTabKeyPress /\ response_status # None) => response_status' = None
        /\ NewConversationStep => response_status' = None ]_vars


\* C35: a summarizer result is applied only to the conversation whose response
\* triggered it.  A summarization is dispatched by a completion, which has
\* given the conversation an id; so when a result is received while no
\* conversation is active (a new conversation was started, or the active one
\* was deleted, between dispatch and receipt) it belongs to another session,
\* and it changes neither the in-memory title nor any stored title.
C35_SummaryOnlyForItsConversation ==
    [][ (TitleReceiptStep /\ conversation_id = <<>>) =>
            /\ title' = title
            /\ db' = db ]_vars


\* C36: a title saved manually while a summarization is in flight is not
\* overwritten by the summarizer's result (a derived title or the empty string
\* of a failed summarization).  Within one conversation a summarization is
\* dispatched only under an empty title, so a title that is not empty when the
\* result is received was saved manually in between: the receipt leaves the
\* in-memory title and the store as they are.
C36_ManualTitleSurvivesSummary ==
    [][ (TitleReceiptStep /\ title # "") =>
            /\ title' = title
            /\ db' = db ]_vars


SummaryDispatched == Len(summary_threads') = Len(summary_threads) + 1
SummaryInFlight   == Len(summary_threads) + Len(title_chan) >= 1

\* C37: whenever a round trip succeeds under an empty title, a summarization
\* is dispatched at that completion or is already in flight; and the flag of a
\* summarization started for a previous conversation never suppresses the
\* dispatch: at the first successful completion of a conversation (it had no
\* id yet, so no summarization can be in flight for it) one is dispatched.
C37_SummaryDispatchedForCurrent ==
    [][ (OkStep /\ title = "") =>
            /\ SummaryDispatched \/ SummaryInFlight
            /\ conversation_id = <<>> => SummaryDispatched ]_vars


\* the title of the stored conversation row with the given id
StoredTitleOf(store, id) ==
    LET rows == {i \in 1..Len(store.gemini_conversation) :
                    store.gemini_conversation[i].conversation_id = id}
    IN  store.gemini_conversation[CHOOSE i \in rows : TRUE].conversation_title

\* C38: a title saved manually before the conversation has an id is kept: the
\* save issues no rename while conversation_id is empty, the title stays as
\* saved until the first successful completion whatever is received from the
\* summarizer, and that completion dispatches no summarization and stores the
\* conversation row it creates with the manual title.
C38_ManualTitleBeforeId ==
    [][ /\ (TitleEditSave /\ conversation_id = <<>>) => db' = db
        /\ (TitleReceiptStep /\ conversation_id = <<>> /\ title # "") => title' = title
        /\ (OkStep /\ conversation_id = <<>> /\ title # "") =>
              /\ ~SummaryDispatched
              /\ title' = title
              /\ StoredTitleOf(db', conversation_id') = title ]_vars


\* two returned results agree: both Ok with the same text, or both a failure
SameResult(a, b) ==
    \/ a = b
    \/ a # <<>> /\ b # <<>> /\ a[1] # "Ok" /\ b[1] # "Ok"

\* C39: the blocking and the async client are equivalent on their state: after
\* every sequence of chat_once and chat_conversation calls with the same
\* outcome per call, both have returned the same results and hold the same
\* contents.
C39_BlockingEquivalentToAsync ==
    /\ api_gemini.async.contents = api_gemini.blocking.contents
    /\ SameResult(api_gemini.async.result, api_gemini.blocking.result)
    /\ SameResult(api_gemini.async.once_result, api_gemini.blocking.once_result)


\* the step of UI::run that finds the settings window left
SettingCloseStep ==
    /\ pc = "handle" /\ pc' = "poll"
    /\ current_windows[1] = "SettingWindow"
    /\ current_windows[2].should_exit

ContentsOf(g) == IF IsSome(g) THEN Unwrap(g).contents ELSE <<>>

\* C40: when the settings window closes with an update, the client is rebuilt
\* from the stored configuration (key, model, options, system instruction)
\* and carries the content history it had before; when it closes without an
\* update the client is unchanged; in both cases chat_history,
\* conversation_id, title and focus_component are unchanged and the main
\* window becomes the active view.
C40_SettingsClose ==
    [][ SettingCloseStep =>
          /\ current_windows' = MainWindow
          /\ chat_history' = chat_history
          /\ conversation_id' = conversation_id
          /\ title' = title
          /\ focus_component' = focus_component
          /\ current_windows[2].update =>
                /\ IsSome(config) /\ IsSome(gemini')
                /\ StoreData(Unwrap(gemini')) = Unwrap(config)
                /\ Unwrap(gemini').contents = ContentsOf(gemini)
          /\ ~current_windows[2].update => gemini' = gemini ]_vars

C40_Witness ==
    /\ current_windows = MainWindow
    /\ IsSome(gemini)
    /\ Unwrap(gemini).model = "other-model"
    /\ Unwrap(gemini).contents # <<>>
    /\ chat_history # <<>>

====
